---------------------------- MODULE Spec2Model ----------------------------
(***************************************************************************)
(* Reference-conditioned batch image generation (nady040/Navarathan-Reddy). *)
(*                                                                         *)
(* The repository holds four variants of one browser program:              *)
(*   - src/index.tsx lines 281-739: the multi-reference variant            *)
(*     (Character 1, Character 2, Prop; concurrent batch, per-item catch); *)
(*   - src/index.tsx lines 1-280: the single-subject serial variant;       *)
(*   - src/unnamed/part_001: the two-subject serial variant;               *)
(*   - src/unnamed/part_000: the sample/confirm variant.                   *)
(*                                                                         *)
(* A JavaScript event handler runs to completion up to its first await, so *)
(* one action is one handler (or one continuation after an await).  Text   *)
(* is a sequence of tokens: a token is one white-space character           *)
(* (" ", "\n", "\r") or a chunk of text that neither starts nor ends with  *)
(* white space and holds no line break, so that trimming and line          *)
(* splitting act on tokens exactly as they act on characters.              *)
(***************************************************************************)
EXTENDS Integers, Sequences, FiniteSets, Bags, TLC

\* ------------------------------------------------------------------ bounds
\* Distinct image files the user can choose from (0 stands for "no file").
MaxImg == 2
\* Descriptor-extraction calls that may be in flight at once, over all slots.
MaxAnalyses == 2
\* Upload-change, analyze-click and descriptor-edit events the user performs
\* in one run.
MaxUserEvents == 3
\* Scenes in the custom scene text the user types.
MaxScenes == 2
\* Size of the expression vocabulary the model samples from (a prefix of the
\* 10-entry table).
MaxExpr == 1
\* Largest number of lines in the custom scene box when the multi-reference
\* click handler is run on a given input.
MaxLines == 7
\* The same for the single-subject click handler.
MaxSerialLines == 11

\* ------------------------------------------------------------------- text
Whitespace == {" ", "\n", "\r"}

RECURSIVE TrimStart(_)
TrimStart(t) ==
    IF t # <<>> /\ Head(t) \in Whitespace THEN TrimStart(Tail(t)) ELSE t

RECURSIVE TrimEnd(_)
TrimEnd(t) ==
    IF t # <<>> /\ t[Len(t)] \in Whitespace
    THEN TrimEnd(SubSeq(t, 1, Len(t) - 1))
    ELSE t

\* String.prototype.trim
Trim(t) == TrimEnd(TrimStart(t))

\* ------------------------------------------------- multi-reference variant
\* The three reference slots: Character 1, Character 2, Prop.
Slots == {"1", "2", "Prop"}

Images == 1..MaxImg

twoCharacterPoses ==
    << <<"A dramatic low-angle shot of both characters standing back-to-back, preparing for a fight.">>,
       <<"An over-the-shoulder shot of character 1 teaching character 2 a new skill.">>,
       <<"A profile view of the two characters shaking hands, sealing an agreement.">>,
       <<"A close-up shot focusing on both characters laughing together at a shared joke.">>,
       <<"An action shot of the two characters working together to overcome an obstacle.">> >>

singleCharacterPoses ==
    << <<"A dynamic low-angle shot of the character striking a heroic pose.">>,
       <<"A thoughtful profile view of the character looking into the distance.">>,
       <<"A close-up shot capturing a moment of intense emotion on the character's face.">>,
       <<"A full-body shot of the character in a fighting stance, ready for action.">>,
       <<"A cozy scene of the character reading a book, seen from a high angle.">> >>

expressions ==
    << "a neutral expression", "a slight smile", "a joyful grin",
       "a determined grit", "an angry scowl", "a surprised look",
       "a sad frown", "a thoughtful and pensive look", "a mischievous smirk",
       "a serene and calm expression" >>

\* maxPoses of the multi-reference variant.
maxPoses == 5

\* The text the description service returns for image f of slot s, before the
\* adapter trims it: the service is a black box, and the model gives every
\* (slot, image) its own paragraph.
DescriptionWord(s, f) ==
    IF s = "Prop"
    THEN <<"prop sheet of image A", "prop sheet of image B", "prop sheet of image C">>[f]
    ELSE <<"character sheet of image A", "character sheet of image B",
           "character sheet of image C">>[f]

ResponseText(s, f, response) ==
    IF response = "text" THEN <<" ", DescriptionWord(s, f), "\n">> ELSE <<" ">>

\* Mutant: every slot is described by generateDescriptionFromCharacterImage.
generateDescriptionCharacterOnly(s, f, response) ==
    Trim(ResponseText("1", f, response))

\* generateDescriptionFromCharacterImage / generateDescriptionFromPropImage:
\* return response.text.trim().
generateDescription(s, f, response) == Trim(ResponseText(s, f, response))

\* What the user may type into a descriptor textarea.
EditTexts == { <<" ">>, <<"descriptor typed by the user">> }

VARIABLES
    uploadedFile,           \* [Slots -> 0..MaxImg]: the File selected, 0 = null
    uploadedFileParts,      \* [Slots -> 0..MaxImg]: base64 data of that image, 0 = null
    promptInput,            \* [Slots -> Text]: value of the descriptor textarea
    analyzeButtonDisabled,  \* [Slots -> BOOLEAN]
    analysisCalls,          \* [Slots \X Images -> Nat]: extraction calls in flight
    userEvents,             \* number of user events on the store so far (bounds the run)
    generateButtonDisabled, \* BOOLEAN: the busy flag
    imageGallery,           \* Seq of gallery children, one per scene of the batch
    startGeneration,        \* locals of the startGeneration invocation suspended
                            \* at Promise.all (NoBatch when none is)
    generationCalls,        \* set of generation calls in flight
    generationResponses,    \* Seq of what the image service answered to each
                            \* item of the latest batch ("pending" before)
    alerts,                 \* Seq of the alerts the latest generate click showed
    customLines             \* the lines typed into the custom scene box of
                            \* either variant, given for a whole behaviour:
                            \* Seq of BOOLEAN, TRUE a scene, FALSE a blank line

\* State of the single-subject serial variant (src/index.tsx lines 1-280).
VARIABLES
    serialUploadedFile,          \* 0..MaxImg: uploadedFile, 0 = null
    serialUploadedFileParts,     \* 0..MaxImg: uploadedFileParts, 0 = null
    serialPromptInput,           \* Text: promptInput.value
    serialAnalyzeButtonDisabled, \* BOOLEAN
    serialAnalyses,              \* [Images \X AnalysisStages -> Nat]: analyze
                                 \* handlers suspended at an await
    serialUserEvents,            \* number of user events on the store so far
    serialGenerateButtonDisabled,\* BOOLEAN: the busy flag
    serialImageGallery,          \* Seq of the img elements appended
    serialStartGeneration,       \* locals of the suspended startGeneration
    serialRequests,              \* Seq of the requests the image service got
                                 \* from the latest batch, with its answers
    serialAlerts                 \* Seq of the alerts the latest generate click
                                 \* showed

\* State of the sample/confirm variant (src/unnamed/part_000).
VARIABLES
    sampleUploadedFile,          \* 0..MaxImg: uploadedFile, 0 = null
    sampleUploadedFileParts,     \* 0..MaxImg: uploadedFileParts, 0 = null
    sampleBasePrompt,            \* Text: basePrompt
    sampleGenerateButtonDisabled,\* BOOLEAN: generateButton.disabled
    sampleConfirmButtonsDisabled,\* BOOLEAN: regenerateButton.disabled and
                                 \* confirmButton.disabled, always set together
    sampleControlsHidden,        \* BOOLEAN: controls has class 'hidden'
    sampleConfirmationHidden,    \* BOOLEAN: confirmationStep has class 'hidden'
    sampleImageContainer,        \* Seq of the img elements of sampleImageContainer
    sampleImageGallery,          \* Seq of the img elements of imageGallery
    sampleRuns,                  \* bag of the generateSample and confirm
                                 \* invocations suspended at an await
    sampleExtractions,           \* number of description calls made since the
                                 \* latest upload of an image
    sampleUserEvents             \* number of user events so far

storeVars == <<uploadedFile, uploadedFileParts, promptInput,
               analyzeButtonDisabled, analysisCalls, userEvents>>
batchVars == <<generateButtonDisabled, imageGallery, startGeneration,
               generationCalls, generationResponses, alerts>>
serialVars == <<serialUploadedFile, serialUploadedFileParts, serialPromptInput,
                serialAnalyzeButtonDisabled, serialAnalyses, serialUserEvents,
                serialGenerateButtonDisabled, serialImageGallery,
                serialStartGeneration, serialRequests, serialAlerts>>
sampleVars == <<sampleUploadedFile, sampleUploadedFileParts, sampleBasePrompt,
                sampleGenerateButtonDisabled, sampleConfirmButtonsDisabled,
                sampleControlsHidden, sampleConfirmationHidden,
                sampleImageContainer, sampleImageGallery, sampleRuns,
                sampleExtractions, sampleUserEvents>>
vars == <<uploadedFile, uploadedFileParts, promptInput, analyzeButtonDisabled,
          analysisCalls, userEvents, generateButtonDisabled, imageGallery,
          startGeneration, generationCalls, generationResponses, alerts,
          customLines, serialVars,
          sampleVars>>

AnalysesInFlight(calls, s) ==
    LET RECURSIVE Sum(_)
        Sum(S) == IF S = {} THEN 0
                  ELSE LET f == CHOOSE x \in S : TRUE
                       IN calls[<<s, f>>] + Sum(S \ {f})
    IN Sum(Images)

TotalAnalyses(calls) ==
    AnalysesInFlight(calls, "1") + AnalysesInFlight(calls, "2")
        + AnalysesInFlight(calls, "Prop")

\* The two awaits of the serial analyze handler: fileToGenerativePart, then
\* generateDescriptionFromImage.
AnalysisStages == {"read", "describe"}

\* No startGeneration invocation of the serial variant is suspended.
serialNoBatch == [posesToGenerate |-> <<>>, basePrompt |-> <<>>, i |-> 0]

NoBatch ==
    [posesToGenerate |-> <<>>,
     basePrompt      |-> [s \in Slots |-> <<>>],
     parts           |-> [s \in Slots |-> 0]]

\* The sample/confirm page as loaded: no file, no descriptor; the generate
\* button waits for an upload and the confirmation step is hidden.
sampleInit ==
    /\ sampleUploadedFile = 0
    /\ sampleUploadedFileParts = 0
    /\ sampleBasePrompt = <<>>
    /\ sampleGenerateButtonDisabled = TRUE
    /\ sampleConfirmButtonsDisabled = FALSE
    /\ sampleControlsHidden = FALSE
    /\ sampleConfirmationHidden = TRUE
    /\ sampleImageContainer = <<>>
    /\ sampleImageGallery = <<>>
    /\ sampleRuns = EmptyBag
    /\ sampleExtractions = 0
    /\ sampleUserEvents = 0

Init ==
    /\ uploadedFile = [s \in Slots |-> 0]
    /\ uploadedFileParts = [s \in Slots |-> 0]
    /\ promptInput = [s \in Slots |-> <<>>]
    /\ analyzeButtonDisabled = [s \in Slots |-> TRUE]
    /\ analysisCalls = [c \in Slots \X Images |-> 0]
    /\ userEvents = 0
    /\ generateButtonDisabled = FALSE
    /\ imageGallery = <<>>
    /\ startGeneration = NoBatch
    /\ generationCalls = {}
    /\ generationResponses = <<>>
    /\ alerts = <<>>
    /\ customLines = <<>>
    /\ serialUploadedFile = 0
    /\ serialUploadedFileParts = 0
    /\ serialPromptInput = <<>>
    /\ serialAnalyzeButtonDisabled = TRUE
    /\ serialAnalyses = [a \in Images \X AnalysisStages |-> 0]
    /\ serialUserEvents = 0
    /\ serialGenerateButtonDisabled = FALSE
    /\ serialImageGallery = <<>>
    /\ serialStartGeneration = serialNoBatch
    /\ serialRequests = <<>>
    /\ serialAlerts = <<>>
    /\ sampleInit

\* imageUpload1/2/Prop 'change' handlers.  f = 0: the selection became empty.
\* A change event fires only when the selection changes.
UploadChange(s, f) ==
    /\ userEvents < MaxUserEvents
    /\ userEvents' = userEvents + 1
    /\ f # uploadedFile[s]
    /\ uploadedFile' = [uploadedFile EXCEPT ![s] = f]
    /\ uploadedFileParts' = [uploadedFileParts EXCEPT ![s] = 0]
    /\ analyzeButtonDisabled' = [analyzeButtonDisabled EXCEPT ![s] = (f = 0)]
    /\ promptInput' = IF f # 0 THEN [promptInput EXCEPT ![s] = <<>>]
                      ELSE promptInput
    /\ UNCHANGED analysisCalls
    /\ UNCHANGED batchVars
    /\ UNCHANGED <<serialVars, customLines, sampleVars>>

\* analyzeButton 'click' handler up to the first await of handleAnalysis.
\* A disabled button dispatches no click.  With no file, handleAnalysis
\* returns null, which the handler stores.
AnalyzeClick(s) ==
    /\ userEvents < MaxUserEvents
    /\ userEvents' = userEvents + 1
    /\ ~analyzeButtonDisabled[s]
    /\ IF uploadedFile[s] = 0
       THEN /\ uploadedFileParts' = [uploadedFileParts EXCEPT ![s] = 0]
            /\ UNCHANGED <<analyzeButtonDisabled, analysisCalls>>
       ELSE /\ TotalAnalyses(analysisCalls) < MaxAnalyses
            /\ analyzeButtonDisabled' = [analyzeButtonDisabled EXCEPT ![s] = TRUE]
            /\ analysisCalls' = [analysisCalls EXCEPT ![<<s, uploadedFile[s]>>] = @ + 1]
            /\ UNCHANGED uploadedFileParts
    /\ UNCHANGED <<uploadedFile, promptInput>>
    /\ UNCHANGED batchVars
    /\ UNCHANGED <<serialVars, customLines, sampleVars>>

\* What handleAnalysis returns for file f once the description call has
\* answered: the file's parts, or null (0) from the catch block.
handleAnalysisResult(f, response) == IF response = "error" THEN 0 ELSE f

\* Mutant: the catch block writes a notice into the textarea.
handleAnalysisPromptNotice(old, s, f, response) ==
    IF response = "error" THEN <<"Could not analyze the image.">>
    ELSE generateDescription(s, f, response)

\* Mutant: the catch block empties the textarea.
handleAnalysisPromptCleared(old, s, f, response) ==
    IF response = "error" THEN <<>> ELSE generateDescription(s, f, response)

\* The textarea after handleAnalysis: written only on the success path.
handleAnalysisPrompt(old, s, f, response) ==
    IF response = "error" THEN old ELSE generateDescription(s, f, response)

\* The rest of handleAnalysis and of the click handler, after the description
\* call for file f of slot s answered with text, with blank text, or raised.
AnalysisReturn(s, f, response) ==
    /\ analysisCalls[<<s, f>>] > 0
    /\ analysisCalls' = [analysisCalls EXCEPT ![<<s, f>>] = @ - 1]
    /\ promptInput' = [promptInput EXCEPT
                         ![s] = handleAnalysisPrompt(@, s, f, response)]
    /\ analyzeButtonDisabled' = [analyzeButtonDisabled EXCEPT ![s] = FALSE]
    /\ uploadedFileParts' = [uploadedFileParts EXCEPT
                               ![s] = handleAnalysisResult(f, response)]
    /\ UNCHANGED <<uploadedFile, userEvents>>
    /\ UNCHANGED batchVars
    /\ UNCHANGED <<serialVars, customLines, sampleVars>>

\* The user edits a descriptor textarea.
EditPrompt(s, t) ==
    /\ userEvents < MaxUserEvents
    /\ userEvents' = userEvents + 1
    /\ promptInput[s] # t
    /\ promptInput' = [promptInput EXCEPT ![s] = t]
    /\ UNCHANGED <<uploadedFile, uploadedFileParts, analyzeButtonDisabled,
                   analysisCalls>>
    /\ UNCHANGED batchVars
    /\ UNCHANGED <<serialVars, customLines, sampleVars>>

\* ------------------------------------------------------ scene list resolver
\* String.prototype.split(/\r\n|\r|\n/): the lines of t.
RECURSIVE SplitLines(_, _)
SplitLines(t, line) ==
    IF t = <<>> THEN <<line>>
    ELSE IF Head(t) = "\r" /\ Len(t) > 1 /\ t[2] = "\n"
         THEN <<line>> \o SplitLines(Tail(Tail(t)), <<>>)
    ELSE IF Head(t) \in {"\r", "\n"}
         THEN <<line>> \o SplitLines(Tail(t), <<>>)
    ELSE SplitLines(Tail(t), Append(line, Head(t)))

\* .map(p => p.trim())
RECURSIVE MapTrim(_)
MapTrim(ls) == IF ls = <<>> THEN <<>> ELSE <<Trim(Head(ls))>> \o MapTrim(Tail(ls))

\* .filter(p => p.length > 0)
RECURSIVE FilterNonEmpty(_)
FilterNonEmpty(ls) ==
    IF ls = <<>> THEN <<>>
    ELSE IF Len(Head(ls)) > 0 THEN <<Head(ls)>> \o FilterNonEmpty(Tail(ls))
    ELSE FilterNonEmpty(Tail(ls))

\* Mutant: the last n entries are kept.
SliceEnd(ls, n) ==
    IF Len(ls) < n THEN ls ELSE SubSeq(ls, Len(ls) - n + 1, Len(ls))

\* posesToGenerate.slice(0, n)
Slice(ls, n) == SubSeq(ls, 1, IF Len(ls) < n THEN Len(ls) ELSE n)

\* Mutant: the default tables are taken the other way round.
ParsedPosesSwapped(customText, parts2) ==
    IF Trim(customText) # <<>>
    THEN FilterNonEmpty(MapTrim(SplitLines(Trim(customText), <<>>)))
    ELSE IF parts2 # 0 THEN singleCharacterPoses ELSE twoCharacterPoses

\* The generate click handler's scene list, before the cap: custom lines if
\* the trimmed custom text is non-empty, else the default table chosen by
\* uploadedFileParts2.
ParsedPoses(customText, parts2) ==
    IF Trim(customText) # <<>>
    THEN FilterNonEmpty(MapTrim(SplitLines(Trim(customText), <<>>)))
    ELSE IF parts2 # 0 THEN twoCharacterPoses ELSE singleCharacterPoses

\* Mutant: the notice is shown for every oversized list, whatever its source.
truncationAlertAnySource(customPosesText, ps, cap) == Len(ps) > cap

\* Whether the click handler shows the truncation notice for the list ps:
\* `posesToGenerate.length > maxPoses` and `customPosesText` is not empty.
truncationAlert(customPosesText, ps, cap) ==
    Len(ps) > cap /\ customPosesText # <<>>

alertMaximum == "Only the first ${maxPoses} will be generated."
alertEmpty ==
    "Please enter at least one pose description, or leave the box empty to use the default poses."
alertCharacter1 ==
    "Character 1 description and analysis data are required. Please upload and analyze the image."
alertCharacter2 ==
    "Character 2 has an image uploaded but no description. Please analyze the character or clear the image."
alertProp ==
    "The prop has an image uploaded but no description. Please analyze the prop or clear the image."

\* The alert the click handler shows while it resolves the scene list.
resolveAlerts(customText, parts2) ==
    IF truncationAlert(Trim(customText), ParsedPoses(customText, parts2), maxPoses)
    THEN <<alertMaximum>> ELSE <<>>

\* The scene list handed to startGeneration.
ResolvedPoses(customText, parts2) ==
    LET ps == ParsedPoses(customText, parts2)
    IN IF Len(ps) > maxPoses THEN Slice(ps, maxPoses) ELSE ps

\* The custom scene texts the user may have typed when clicking Generate:
\* k scenes, k in 0..MaxScenes, each on a line of its own that is indented,
\* ended by CR LF and followed by a blank line.
SceneWord(k) == <<"scene A", "scene B", "scene C", "scene D">>[k]

RECURSIVE SceneLines(_)
SceneLines(k) ==
    IF k = 0 THEN <<" ", "\n", " ">>
    ELSE SceneLines(k - 1) \o <<" ", SceneWord(k), "\r", "\n", "\n">>

CustomTexts == { SceneLines(k) : k \in 0..MaxScenes }

\* ---------------------------------------------------------- prompt composer
consistentBackground ==
    <<"The background must be a consistent, neutral, soft-focus studio background for all generated images. This is essential for character consistency.">>

\* Mutant: the clause is added for any Prop descriptor, analyzed image or not.
propInstructionDescriptorOnly(basePromptProp, partsProp) ==
    IF basePromptProp # <<>>
    THEN <<" The scene must also include a prop described as \"">> \o basePromptProp
         \o <<"\", using the provided prop image as a strict reference for its appearance.">>
    ELSE <<>>

propInstruction(basePromptProp, partsProp) ==
    IF basePromptProp # <<>> /\ partsProp # 0
    THEN <<" The scene must also include a prop described as \"">> \o basePromptProp
         \o <<"\", using the provided prop image as a strict reference for its appearance.">>
    ELSE <<>>

sceneInstruction(pose) ==
    <<"Redraw them in the following scene: \"">> \o pose
    \o <<"\". It is CRITICAL to accurately render the specified camera angle (e.g., 'profile view', 'low-angle shot', 'close-up'). The pose and angle are the main focus.">>

\* fullPrompt of startGeneration: basePrompt is the trimmed descriptor of each
\* slot and parts the analyzed image data of each slot.
fullPrompt(basePrompt, parts, pose, expression) ==
    IF basePrompt["2"] # <<>> /\ parts["2"] # 0
    THEN <<"You are a master character artist. Your task is to generate a scene with two characters. Character 1 is described as: \"">>
         \o basePrompt["1"] \o <<"\". Character 2 is described as: \"">>
         \o basePrompt["2"]
         \o <<"\". Use the first provided image as a strict and absolute reference for Character 1's face, appearance, and art style. Use the second image for Character 2. Preserving the exact likeness from the reference images is the highest priority. ">>
         \o sceneInstruction(pose)
         \o propInstruction(basePrompt["Prop"], parts["Prop"])
         \o <<" Both characters should have ", expression, ". ">>
         \o consistentBackground
    ELSE <<"You are a master character artist. Your task is to generate a scene with one character. The character is described as: \"">>
         \o basePrompt["1"]
         \o <<"\". Use the provided image as a strict and absolute reference for the character's face, appearance, and art style. Preserving the exact likeness from the reference image is the highest priority. ">>
         \o sceneInstruction(pose)
         \o propInstruction(basePrompt["Prop"], parts["Prop"])
         \o <<" The character should have ", expression, ". ">>
         \o consistentBackground

\* Mutant: the prop image is pushed before the image of Character 2.
requestImagesPropFirst(parts) ==
    <<[slot |-> "1", data |-> parts["1"]]>>
    \o (IF parts["Prop"] # 0 THEN <<[slot |-> "Prop", data |-> parts["Prop"]]>>
        ELSE <<>>)
    \o (IF parts["2"] # 0 THEN <<[slot |-> "2", data |-> parts["2"]]>> ELSE <<>>)

\* The inlineData parts generateAndDisplayImage sends before the text part:
\* image 1, then image 2 and the prop image when not null.
requestImages(parts) ==
    <<[slot |-> "1", data |-> parts["1"]]>>
    \o (IF parts["2"] # 0 THEN <<[slot |-> "2", data |-> parts["2"]]>> ELSE <<>>)
    \o (IF parts["Prop"] # 0 THEN <<[slot |-> "Prop", data |-> parts["Prop"]]>>
        ELSE <<>>)

\* contents.parts of the generateContent request of a call: the inlineData
\* parts, then parts.push({ text: prompt }).
requestParts(call) == call.images \o <<[slot |-> "text", data |-> call.prompt]>>

\* ------------------------------------------------------ generation dispatcher
\* The gallery-placeholder div created for each scene.
\* A gallery child is a placeholder, a card (img.src is the image the service
\* returned, named here by the position of the request it answers) or a
\* placeholder marked Failed (error is what the catch block logged).  img.alt
\* and the download button are written and never read: they are not kept.
placeholder == [kind |-> "placeholder", src |-> 0, error |-> "none"]

\* Mutant: the Primary check looks at the descriptor only.
preflightDescriptorOnly(basePrompt, parts) ==
    /\ ~(basePrompt["1"] = <<>>)
    /\ ~(parts["2"] # 0 /\ basePrompt["2"] = <<>>)
    /\ ~(parts["Prop"] # 0 /\ basePrompt["Prop"] = <<>>)

\* Mutant: only the Character 1 check is made.
preflightPrimaryOnly(basePrompt, parts) ==
    ~(basePrompt["1"] = <<>> \/ parts["1"] = 0)

\* The pre-flight checks of startGeneration.
preflightOk(basePrompt, parts) ==
    /\ ~(basePrompt["1"] = <<>> \/ parts["1"] = 0)
    /\ ~(parts["2"] # 0 /\ basePrompt["2"] = <<>>)
    /\ ~(parts["Prop"] # 0 /\ basePrompt["Prop"] = <<>>)

\* The alert of the first pre-flight check of startGeneration that fails.
preflightAlerts(basePrompt, parts) ==
    IF basePrompt["1"] = <<>> \/ parts["1"] = 0 THEN <<alertCharacter1>>
    ELSE IF parts["2"] # 0 /\ basePrompt["2"] = <<>> THEN <<alertCharacter2>>
    ELSE IF parts["Prop"] # 0 /\ basePrompt["Prop"] = <<>> THEN <<alertProp>>
    ELSE <<>>

\* Mutant: the prompt is composed without the Character 2 descriptor.
newCallWithoutSecondDescriptor(i, basePrompt, parts, pose, expression) ==
    [placeholder |-> i,
     pose        |-> pose,
     expression  |-> expression,
     prompt      |-> fullPrompt([basePrompt EXCEPT !["2"] = <<>>], parts, pose,
                                expression),
     images      |-> requestImages(parts),
     attached    |-> TRUE,
     awaited     |-> TRUE]

\* Mutant: the Character 2 parts are passed where the Character 1 parts belong.
newCallSwappedImages(i, basePrompt, parts, pose, expression) ==
    [placeholder |-> i,
     pose        |-> pose,
     expression  |-> expression,
     prompt      |-> fullPrompt(basePrompt, parts, pose, expression),
     images      |-> requestImages([parts EXCEPT !["1"] = parts["2"]]),
     attached    |-> TRUE,
     awaited     |-> TRUE]

\* The generation call issued for scene i: what it sends, the placeholder it
\* will replace (by position, while that placeholder is in the gallery), and
\* whether the Promise.all of its batch still waits for it.
newCall(i, basePrompt, parts, pose, expression) ==
    [placeholder |-> i,
     pose        |-> pose,
     expression  |-> expression,
     prompt      |-> fullPrompt(basePrompt, parts, pose, expression),
     images      |-> requestImages(parts),
     attached    |-> TRUE,
     awaited     |-> TRUE]

\* imageGallery.textContent = '' detaches the children a call still points at.
detach(calls) == { [c EXCEPT !.attached = FALSE] : c \in calls }

\* Mutant: the gallery is not cleared; the placeholders of the new batch
\* follow the children it holds.
GenerateClickKeepsGallery(customText, exprs) ==
    LET poses      == ResolvedPoses(customText, uploadedFileParts["2"])
        basePrompt == [s \in Slots |-> Trim(promptInput[s])]
    IN /\ ~generateButtonDisabled
       /\ Len(poses) > 0
       /\ DOMAIN exprs = 1..Len(poses)
       /\ preflightOk(basePrompt, uploadedFileParts)
       /\ generateButtonDisabled' = TRUE
       /\ imageGallery' = imageGallery \o [i \in 1..Len(poses) |-> placeholder]
       /\ startGeneration' = [posesToGenerate |-> poses,
                               basePrompt      |-> basePrompt,
                               parts           |-> uploadedFileParts]
       /\ generationCalls' =
              detach(generationCalls)
              \cup { newCall(i, basePrompt, uploadedFileParts, poses[i],
                             expressions[exprs[i]]) : i \in 1..Len(poses) }
       /\ generationResponses' = [i \in 1..Len(poses) |-> "pending"]
       /\ alerts' = resolveAlerts(customText, uploadedFileParts["2"])
       /\ UNCHANGED storeVars
       /\ UNCHANGED <<serialVars, customLines, sampleVars>>

\* generateButton 'click' handler with the synchronous part of startGeneration:
\* resolve the scene list, validate, set the busy flag, clear the gallery and,
\* per scene, add a placeholder, sample an expression, compose the prompt and
\* issue the call.  A rejected request (empty list, failed pre-flight) is
\* GenerateClickRejected.
GenerateClick(customText, exprs) ==
    LET poses      == ResolvedPoses(customText, uploadedFileParts["2"])
        basePrompt == [s \in Slots |-> Trim(promptInput[s])]
    IN /\ ~generateButtonDisabled
       /\ Len(poses) > 0
       /\ DOMAIN exprs = 1..Len(poses)
       /\ preflightOk(basePrompt, uploadedFileParts)
       /\ generateButtonDisabled' = TRUE
       /\ imageGallery' = [i \in 1..Len(poses) |-> placeholder]
       /\ startGeneration' = [posesToGenerate |-> poses,
                               basePrompt      |-> basePrompt,
                               parts           |-> uploadedFileParts]
       /\ generationCalls' =
              detach(generationCalls)
              \cup { newCall(i, basePrompt, uploadedFileParts, poses[i],
                             expressions[exprs[i]]) : i \in 1..Len(poses) }
       /\ generationResponses' = [i \in 1..Len(poses) |-> "pending"]
       /\ alerts' = resolveAlerts(customText, uploadedFileParts["2"])
       /\ UNCHANGED storeVars
       /\ UNCHANGED <<serialVars, customLines, sampleVars>>

\* generateButton 'click' handler when the request is rejected: the resolved
\* list is empty, or a pre-flight check of startGeneration fails.  Nothing but
\* the alerts shown changes.
GenerateClickRejected(customText) ==
    LET poses      == ResolvedPoses(customText, uploadedFileParts["2"])
        basePrompt == [s \in Slots |-> Trim(promptInput[s])]
    IN /\ ~generateButtonDisabled
       /\ Len(poses) = 0 \/ ~preflightOk(basePrompt, uploadedFileParts)
       /\ alerts' = resolveAlerts(customText, uploadedFileParts["2"])
                     \o (IF Len(poses) = 0 THEN <<alertEmpty>>
                         ELSE preflightAlerts(basePrompt, uploadedFileParts))
       /\ UNCHANGED <<generateButtonDisabled, imageGallery, startGeneration,
                      generationCalls, generationResponses>>
       /\ UNCHANGED storeVars
       /\ UNCHANGED <<serialVars, customLines, sampleVars>>

\* Mutant: a response without image data is not an error; the function
\* returns with the placeholder left as it is.
generateAndDisplayImageSkipsEmpty(call, response) ==
    IF response = "image"
    THEN [settled |-> "fulfilled",
          child   |-> [kind |-> "card", src |-> call.placeholder,
                       error |-> "none"]]
    ELSE IF response = "noimage"
    THEN [settled |-> "fulfilled", child |-> placeholder]
    ELSE [settled |-> "fulfilled",
          child   |-> [kind |-> "error", src |-> 0,
                       error |-> "generateContent raised"]]

\* Mutant: no catch block; a raised error or a missing image rejects the
\* promise and leaves the placeholder as it is.
generateAndDisplayImageNoCatch(call, response) ==
    IF response = "image"
    THEN [settled |-> "fulfilled",
          child   |-> [kind |-> "card", src |-> call.placeholder,
                       error |-> "none"]]
    ELSE [settled |-> "rejected", child |-> placeholder]

\* Mutant: the catch block marks the placeholder and throws again.
generateAndDisplayImageRethrow(call, response) ==
    IF response = "image"
    THEN [settled |-> "fulfilled",
          child   |-> [kind |-> "card", src |-> call.placeholder,
                       error |-> "none"]]
    ELSE [settled |-> "rejected",
          child   |-> [kind |-> "error", src |-> 0,
                       error |-> IF response = "noimage"
                                 THEN "No image data found in response."
                                 ELSE "generateContent raised"]]

\* generateAndDisplayImage after its await: how the promise of the call
\* settles and what stands in the placeholder's place afterwards.  response is
\* "image" (a part with inlineData), "noimage" (no candidates, no parts, or
\* text parts only) or "error" (generateContent raised).
generateAndDisplayImage(call, response) ==
    IF response = "image"
    THEN [settled |-> "fulfilled",
          child   |-> [kind |-> "card", src |-> call.placeholder,
                       error |-> "none"]]
    ELSE [settled |-> "fulfilled",
          child   |-> [kind |-> "error", src |-> 0,
                       error |-> IF response = "noimage"
                                 THEN "No image data found in response."
                                 ELSE "generateContent raised"]]

\* Mutant: the child replaces the first placeholder left in the gallery, in
\* the order the calls complete.
replaceWithFirstPending(gallery, call, child) ==
    IF \E i \in DOMAIN gallery : gallery[i].kind = "placeholder"
    THEN LET first == CHOOSE i \in DOMAIN gallery :
                         /\ gallery[i].kind = "placeholder"
                         /\ \A j \in 1..(i - 1) : gallery[j].kind # "placeholder"
         IN [gallery EXCEPT ![first] = child]
    ELSE gallery

\* Mutant: the child replaces the first child of the gallery, whatever the
\* placeholder of the call.
replaceWithFirstChild(gallery, call, child) ==
    IF gallery # <<>> THEN [gallery EXCEPT ![1] = child] ELSE gallery

\* Mutant: the result is appended to the gallery (imageGallery.appendChild)
\* instead of taking the placeholder's place.
appendChild(gallery, call, child) == Append(gallery, child)

\* placeholderElement.replaceWith(galleryCard) / placeholderElement.innerHTML:
\* the child takes the placeholder's position; a detached placeholder is not
\* in the gallery any more.
replaceWith(gallery, call, child) ==
    IF call.attached /\ call.placeholder \in DOMAIN gallery
    THEN [gallery EXCEPT ![call.placeholder] = child]
    ELSE gallery

\* Mutant: the wait ends with the first promise to settle (Promise.race).
promiseRaceSettles(call, settled, rest) == call.awaited

\* Whether `await Promise.all(generationPromises)` resumes once `call` has
\* settled as `settled`, `rest` being the other calls in flight: on the first
\* rejection, or when every awaited promise is fulfilled.
promiseAllSettles(call, settled, rest) ==
    call.awaited /\ (settled = "rejected" \/ \A c \in rest : ~c.awaited)

\* One generation call answers; when Promise.all settles with it, the finally
\* block of startGeneration releases the busy flag.
GenerationReturn(call, response) ==
    LET r    == generateAndDisplayImage(call, response)
        rest == generationCalls \ {call}
    IN /\ call \in generationCalls
       /\ imageGallery' = replaceWith(imageGallery, call, r.child)
       /\ generationResponses' =
              IF call.attached /\ call.placeholder \in DOMAIN generationResponses
              THEN [generationResponses EXCEPT ![call.placeholder] = response]
              ELSE generationResponses
       /\ IF promiseAllSettles(call, r.settled, rest)
          THEN /\ generateButtonDisabled' = FALSE
               /\ startGeneration' = NoBatch
               /\ generationCalls' = { [c EXCEPT !.awaited = FALSE] : c \in rest }
          ELSE /\ generationCalls' = rest
               /\ UNCHANGED <<generateButtonDisabled, startGeneration>>
       /\ UNCHANGED alerts
       /\ UNCHANGED storeVars
       /\ UNCHANGED <<serialVars, customLines, sampleVars>>

Responses == {"image", "noimage", "error"}
AnalysisResponses == {"text", "blank", "error"}

Next ==
    \/ \E s \in Slots, f \in 0..MaxImg : UploadChange(s, f)
    \/ \E s \in Slots : AnalyzeClick(s)
    \/ \E s \in Slots, f \in Images, r \in AnalysisResponses : AnalysisReturn(s, f, r)
    \/ \E s \in Slots, t \in EditTexts : EditPrompt(s, t)
    \/ \E t \in CustomTexts, n \in 1..maxPoses :
          \E exprs \in [1..n -> 1..MaxExpr] : GenerateClick(t, exprs)
    \/ \E t \in CustomTexts : GenerateClickRejected(t)
    \/ \E c \in generationCalls, r \in Responses : GenerationReturn(c, r)

Spec == Init /\ [][Next]_vars

\* The multi-reference page with the three slots uploaded and analyzed, the
\* user having one more event on the store to perform.
InitReextract ==
    /\ uploadedFile = [s \in Slots |-> 1]
    /\ uploadedFileParts = [s \in Slots |-> 1]
    /\ promptInput = [s \in Slots |-> generateDescription(s, 1, "text")]
    /\ analyzeButtonDisabled = [s \in Slots |-> FALSE]
    /\ analysisCalls = [c \in Slots \X Images |-> 0]
    /\ userEvents = MaxUserEvents - 1
    /\ generateButtonDisabled = FALSE
    /\ imageGallery = <<>>
    /\ startGeneration = NoBatch
    /\ generationCalls = {}
    /\ generationResponses = <<>>
    /\ alerts = <<>>
    /\ customLines = <<>>
    /\ serialUploadedFile = 0
    /\ serialUploadedFileParts = 0
    /\ serialPromptInput = <<>>
    /\ serialAnalyzeButtonDisabled = TRUE
    /\ serialAnalyses = [a \in Images \X AnalysisStages |-> 0]
    /\ serialUserEvents = 0
    /\ serialGenerateButtonDisabled = FALSE
    /\ serialImageGallery = <<>>
    /\ serialStartGeneration = serialNoBatch
    /\ serialRequests = <<>>
    /\ serialAlerts = <<>>
    /\ sampleInit

SpecReextract == InitReextract /\ [][Next]_vars

\* "Assuming every external generation call eventually returns or raises":
\* a call in flight stays answerable until it is answered.
FairSpec ==
    Spec /\ WF_vars(\E c \in generationCalls, r \in Responses : GenerationReturn(c, r))

\* ---------------------------------------------- single-subject serial variant
\* poses of src/index.tsx lines 15-41.
poses ==
    << <<"in a dynamic high-kick pose">>,
       <<"launching a powerful uppercut">>,
       <<"wielding a long wooden bo staff in a defensive stance">>,
       <<"drawing a sword from its sheath">>,
       <<"aiming a bow and arrow">>,
       <<"casting a magic spell with glowing hands">>,
       <<"in a graceful crane stance, balancing on one leg">>,
       <<"in a low, powerful horse stance with fists ready">>,
       <<"in a classic praying mantis style pose">>,
       <<"executing a fluid snake style movement, low to the ground">>,
       <<"standing on a cliff edge, cape billowing in the wind">>,
       <<"looking over their shoulder with a mysterious expression">>,
       <<"raising a triumphant fist to the sky">>,
       <<"kneeling in defeat, head bowed">>,
       <<"leaning against a wall, arms crossed casually">>,
       <<"sitting by a campfire, looking thoughtful">>,
       <<"reading a book in a comfortable chair">>,
       <<"walking through a bustling city street">> >>

\* maxPoses of the serial generate click handler.
serialMaxPoses == 10

\* generateDescriptionFromImage: return response.text.trim().
generateDescriptionFromImage(f, response) == Trim(ResponseText("1", f, response))

serialAnalysesInFlight ==
    LET RECURSIVE Sum(_)
        Sum(S) == IF S = {} THEN 0
                  ELSE LET a == CHOOSE x \in S : TRUE
                       IN serialAnalyses[a] + Sum(S \ {a})
    IN Sum(Images \X AnalysisStages)

\* imageUpload 'change' handler.  f = 0: the selection became empty, which
\* resets neither uploadedFileParts nor the textarea.
serialUploadChange(f) ==
    /\ serialUserEvents < MaxUserEvents
    /\ serialUserEvents' = serialUserEvents + 1
    /\ f # serialUploadedFile
    /\ serialUploadedFile' = f
    /\ serialAnalyzeButtonDisabled' = (f = 0)
    /\ serialUploadedFileParts' = IF f # 0 THEN 0 ELSE serialUploadedFileParts
    /\ serialPromptInput' = IF f # 0 THEN <<>> ELSE serialPromptInput
    /\ UNCHANGED <<serialAnalyses, serialGenerateButtonDisabled,
                   serialImageGallery, serialStartGeneration, serialRequests,
                   serialAlerts>>
    /\ UNCHANGED <<storeVars, batchVars, customLines, sampleVars>>

\* analyzeButton 'click' handler up to `await fileToGenerativePart(uploadedFile)`.
\* With no file the handler alerts and returns before the try block.
serialAnalyzeClick ==
    /\ serialUserEvents < MaxUserEvents
    /\ serialUserEvents' = serialUserEvents + 1
    /\ ~serialAnalyzeButtonDisabled
    /\ serialUploadedFile # 0
    /\ serialAnalysesInFlight < MaxAnalyses
    /\ serialAnalyzeButtonDisabled' = TRUE
    /\ serialAnalyses' =
           [serialAnalyses EXCEPT ![<<serialUploadedFile, "read">>] = @ + 1]
    /\ UNCHANGED <<serialUploadedFile, serialUploadedFileParts, serialPromptInput,
                   serialGenerateButtonDisabled, serialImageGallery,
                   serialStartGeneration, serialRequests, serialAlerts>>
    /\ UNCHANGED <<storeVars, batchVars, customLines, sampleVars>>

\* The analyze handler resumes with the data of file f (the file that was
\* selected at the click), stores it and calls the description service.
serialFileRead(f) ==
    /\ serialAnalyses[<<f, "read">>] > 0
    /\ serialUploadedFileParts' = f
    /\ serialAnalyses' = [serialAnalyses EXCEPT ![<<f, "read">>] = @ - 1,
                                                ![<<f, "describe">>] = @ + 1]
    /\ UNCHANGED <<serialUploadedFile, serialPromptInput,
                   serialAnalyzeButtonDisabled, serialUserEvents,
                   serialGenerateButtonDisabled, serialImageGallery,
                   serialStartGeneration, serialRequests, serialAlerts>>
    /\ UNCHANGED <<storeVars, batchVars, customLines, sampleVars>>

\* The analyze handler resumes after the description call for file f: the
\* description is written to the textarea, or the catch block runs; the
\* finally block enables the button.
serialAnalysisReturn(f, response) ==
    /\ serialAnalyses[<<f, "describe">>] > 0
    /\ serialAnalyses' = [serialAnalyses EXCEPT ![<<f, "describe">>] = @ - 1]
    /\ serialPromptInput' = IF response = "error" THEN serialPromptInput
                            ELSE generateDescriptionFromImage(f, response)
    /\ serialAnalyzeButtonDisabled' = FALSE
    /\ UNCHANGED <<serialUploadedFile, serialUploadedFileParts, serialUserEvents,
                   serialGenerateButtonDisabled, serialImageGallery,
                   serialStartGeneration, serialRequests, serialAlerts>>
    /\ UNCHANGED <<storeVars, batchVars, customLines, sampleVars>>

\* The user edits the descriptor textarea.
serialEditPrompt(t) ==
    /\ serialUserEvents < MaxUserEvents
    /\ serialUserEvents' = serialUserEvents + 1
    /\ serialPromptInput # t
    /\ serialPromptInput' = t
    /\ UNCHANGED <<serialUploadedFile, serialUploadedFileParts,
                   serialAnalyzeButtonDisabled, serialAnalyses,
                   serialGenerateButtonDisabled, serialImageGallery,
                   serialStartGeneration, serialRequests, serialAlerts>>
    /\ UNCHANGED <<storeVars, batchVars, customLines, sampleVars>>

\* customPosesText.split('\n'): a carriage return does not end a line.
RECURSIVE serialSplitLines(_, _)
serialSplitLines(t, line) ==
    IF t = <<>> THEN <<line>>
    ELSE IF Head(t) = "\n" THEN <<line>> \o serialSplitLines(Tail(t), <<>>)
    ELSE serialSplitLines(Tail(t), Append(line, Head(t)))

\* The serial click handler's scene list, before the cap.
serialParsedPoses(customText) ==
    IF Trim(customText) # <<>>
    THEN FilterNonEmpty(MapTrim(serialSplitLines(Trim(customText), <<>>)))
    ELSE poses

\* The scene list the serial generate click handler hands to startGeneration.
serialResolvedPoses(customText) ==
    LET ps == serialParsedPoses(customText)
    IN IF Len(ps) > serialMaxPoses THEN Slice(ps, serialMaxPoses) ELSE ps

alertDescription == "The description cannot be empty."
alertAnalysis ==
    "Analysis data is missing. Please re-upload and analyze the image."

\* The alert the serial click handler shows while it resolves the scene list.
serialResolveAlerts(customText) ==
    IF truncationAlert(Trim(customText), serialParsedPoses(customText),
                       serialMaxPoses)
    THEN <<alertMaximum>> ELSE <<>>

\* fullPrompt of the serial startGeneration loop.
serialFullPrompt(basePrompt, pose, expression) ==
    basePrompt
    \o <<" Using the provided image as a strict reference for the character's face, appearance, and art style, redraw the character ">>
    \o pose
    \o <<". The character should have ", expression,
         " on their face. Do not alter the character's identity.">>

\* The request generateAndDisplayImage sends: uploadedFileParts as read when
\* the call is made, and the prompt.  response is the service's answer.
serialRequest(parts, basePrompt, pose, expression) ==
    [pose       |-> pose,
     expression |-> expression,
     prompt     |-> serialFullPrompt(basePrompt, pose, expression),
     image      |-> parts,
     response   |-> "pending"]

\* Mutant: the calls of all the poses are made at once.
serialGenerateClickFanOut(customText, e) ==
    LET posesToGenerate == serialResolvedPoses(customText)
        basePrompt      == Trim(serialPromptInput)
    IN /\ ~serialGenerateButtonDisabled
       /\ Len(posesToGenerate) > 0
       /\ basePrompt # <<>>
       /\ serialUploadedFileParts # 0
       /\ serialGenerateButtonDisabled' = TRUE
       /\ serialImageGallery' = <<>>
       /\ serialStartGeneration' = [posesToGenerate |-> posesToGenerate,
                                     basePrompt      |-> basePrompt,
                                     i               |-> 1]
       /\ serialRequests' =
              [k \in 1..Len(posesToGenerate) |->
                  serialRequest(serialUploadedFileParts, basePrompt,
                                posesToGenerate[k], expressions[e])]
       /\ serialAlerts' = serialResolveAlerts(customText)
       /\ UNCHANGED <<serialUploadedFile, serialUploadedFileParts,
                      serialPromptInput, serialAnalyzeButtonDisabled,
                      serialAnalyses, serialUserEvents>>
       /\ UNCHANGED <<storeVars, batchVars, customLines, sampleVars>>

\* generateButton 'click' handler and startGeneration up to the await of the
\* first item.  A rejected request is serialGenerateClickRejected.
serialGenerateClick(customText, e) ==
    LET posesToGenerate == serialResolvedPoses(customText)
        basePrompt      == Trim(serialPromptInput)
    IN /\ ~serialGenerateButtonDisabled
       /\ Len(posesToGenerate) > 0
       /\ basePrompt # <<>>
       /\ serialUploadedFileParts # 0
       /\ serialGenerateButtonDisabled' = TRUE
       /\ serialImageGallery' = <<>>
       /\ serialStartGeneration' = [posesToGenerate |-> posesToGenerate,
                                     basePrompt      |-> basePrompt,
                                     i               |-> 1]
       /\ serialRequests' = << serialRequest(serialUploadedFileParts, basePrompt,
                                             posesToGenerate[1], expressions[e]) >>
       /\ serialAlerts' = serialResolveAlerts(customText)
       /\ UNCHANGED <<serialUploadedFile, serialUploadedFileParts,
                      serialPromptInput, serialAnalyzeButtonDisabled,
                      serialAnalyses, serialUserEvents>>
       /\ UNCHANGED <<storeVars, batchVars, customLines, sampleVars>>

\* The serial generate click when the request is rejected: the resolved list
\* is empty, the trimmed description is empty, or uploadedFileParts is null.
serialGenerateClickRejected(customText) ==
    LET posesToGenerate == serialResolvedPoses(customText)
        basePrompt      == Trim(serialPromptInput)
    IN /\ ~serialGenerateButtonDisabled
       /\ \/ Len(posesToGenerate) = 0
          \/ basePrompt = <<>>
          \/ serialUploadedFileParts = 0
       /\ serialAlerts' =
              serialResolveAlerts(customText)
              \o (IF Len(posesToGenerate) = 0 THEN <<alertEmpty>>
                  ELSE IF basePrompt = <<>> THEN <<alertDescription>>
                  ELSE <<alertAnalysis>>)
       /\ UNCHANGED <<serialUploadedFile, serialUploadedFileParts,
                      serialPromptInput, serialAnalyzeButtonDisabled,
                      serialAnalyses, serialUserEvents,
                      serialGenerateButtonDisabled, serialImageGallery,
                      serialStartGeneration, serialRequests>>
       /\ UNCHANGED <<storeVars, batchVars, customLines, sampleVars>>

\* Mutant: the error of a call is swallowed and the loop goes on.
serialLoopIgnoresError(response, i, ps, parts) == i < Len(ps) /\ parts # 0

\* Whether the for loop of startGeneration issues another call once call i
\* has answered: not when the await raised (the catch block ends the loop),
\* not after the last pose, and not when reading uploadedFileParts.base64
\* raises because the parts are null.
serialLoopContinues(response, i, ps, parts) ==
    response # "error" /\ i < Len(ps) /\ parts # 0

\* startGeneration resumes after the call for item i.  A raised error leaves
\* the loop through the catch block.  Otherwise an image, if the answer holds
\* one, is appended and the loop goes on: the next iteration reads
\* uploadedFileParts.base64 where it stands, which throws a TypeError when
\* uploadedFileParts is null; the finally block releases the busy flag.
serialGenerationReturn(response, e) ==
    LET i        == serialStartGeneration.i
        ps       == serialStartGeneration.posesToGenerate
        answered == [serialRequests EXCEPT ![i].response = response]
    IN /\ i > 0
       /\ serialImageGallery' =
              IF response = "image"
              THEN Append(serialImageGallery,
                          [src |-> i, alt |-> serialRequests[i].prompt])
              ELSE serialImageGallery
       /\ IF serialLoopContinues(response, i, ps, serialUploadedFileParts)
          THEN /\ serialRequests' =
                      Append(answered,
                             serialRequest(serialUploadedFileParts,
                                           serialStartGeneration.basePrompt,
                                           ps[i + 1], expressions[e]))
               /\ serialStartGeneration' = [serialStartGeneration EXCEPT !.i = i + 1]
               /\ UNCHANGED serialGenerateButtonDisabled
          ELSE /\ serialRequests' = answered
               /\ serialStartGeneration' = serialNoBatch
               /\ serialGenerateButtonDisabled' = FALSE
       /\ UNCHANGED <<serialUploadedFile, serialUploadedFileParts,
                      serialPromptInput, serialAnalyzeButtonDisabled,
                      serialAnalyses, serialUserEvents, serialAlerts>>
       /\ UNCHANGED <<storeVars, batchVars, customLines, sampleVars>>

NextSerial ==
    \/ \E f \in 0..MaxImg : serialUploadChange(f)
    \/ serialAnalyzeClick
    \/ \E f \in Images : serialFileRead(f)
    \/ \E f \in Images, r \in AnalysisResponses : serialAnalysisReturn(f, r)
    \/ \E t \in EditTexts : serialEditPrompt(t)
    \/ \E t \in CustomTexts, e \in 1..MaxExpr : serialGenerateClick(t, e)
    \/ \E t \in CustomTexts : serialGenerateClickRejected(t)
    \/ \E r \in Responses, e \in 1..MaxExpr : serialGenerationReturn(r, e)

SpecSerial == Init /\ [][NextSerial]_vars

\* ------------------------------------------- the generate click, given inputs
\* The handlers of the generate click run once on a given store and a given
\* custom scene text.
\* Text of the scene typed on line k.
LineWord(k) ==
    <<"scene 1", "scene 2", "scene 3", "scene 4", "scene 5", "scene 6",
      "scene 7", "scene 8", "scene 9", "scene 10", "scene 11", "scene 12",
      "scene 13">>[k]

\* customPosesInput.value for the typed lines: every line is indented, a
\* scene line also has a trailing blank; lines are separated by LF, every
\* second one by CR LF.
RECURSIVE customPosesInputValue(_)
customPosesInputValue(lines) ==
    IF lines = <<>> THEN <<>>
    ELSE LET k    == Len(lines)
             line == IF lines[k] THEN <<" ", LineWord(k), " ">> ELSE <<" ">>
         IN IF k = 1 THEN line
            ELSE customPosesInputValue(SubSeq(lines, 1, k - 1))
                 \o (IF k % 2 = 0 THEN <<"\n">> ELSE <<"\r", "\n">>) \o line

\* The typed lines: up to n lines, all scenes but at most one blank line, or
\* blank lines only.
LinesUpTo(n) ==
    { [i \in 1..k |-> i # j] : k \in 0..n, j \in 0..n }
    \cup { [i \in 1..k |-> FALSE] : k \in 0..n }

\* States a slot of the multi-reference store is left in by uploads, removals
\* and extractions: empty; image selected; analyzed; analyzed with an empty
\* description; image removed after the analysis; extraction failed after an
\* earlier one succeeded; image removed while its extraction was running,
\* which then answered with text or with an empty description.
SlotStates(s) ==
    { [file |-> 0, parts |-> 0, prompt |-> <<>>],
      [file |-> 1, parts |-> 0, prompt |-> <<>>],
      [file |-> 1, parts |-> 1, prompt |-> <<>>],
      [file |-> 0, parts |-> 0, prompt |-> generateDescription(s, 1, "text")],
      [file |-> MaxImg, parts |-> MaxImg,
       prompt |-> generateDescription(s, MaxImg, "text")],
      [file |-> 1, parts |-> 0, prompt |-> generateDescription(s, 1, "text")],
      [file |-> 0, parts |-> 1, prompt |-> generateDescription(s, 1, "text")],
      [file |-> 0, parts |-> 1, prompt |-> <<>>] }

\* The same for the single-subject store, whose removal keeps the parts.
serialSlotStates ==
    { [file |-> 0, parts |-> 0, prompt |-> <<>>],
      [file |-> 1, parts |-> 0, prompt |-> <<>>],
      [file |-> 1, parts |-> 1, prompt |-> <<>>],
      [file |-> 1, parts |-> 1, prompt |-> generateDescriptionFromImage(1, "text")],
      [file |-> 0, parts |-> 1, prompt |-> generateDescriptionFromImage(1, "text")] }

InitClick ==
    /\ sampleInit
    /\ analysisCalls = [c \in Slots \X Images |-> 0]
    /\ userEvents = 0
    /\ generateButtonDisabled = FALSE
    /\ imageGallery = <<>>
    /\ startGeneration = NoBatch
    /\ generationCalls = {}
    /\ generationResponses = <<>>
    /\ alerts = <<>>
    /\ serialAnalyses = [a \in Images \X AnalysisStages |-> 0]
    /\ serialUserEvents = 0
    /\ serialGenerateButtonDisabled = FALSE
    /\ serialImageGallery = <<>>
    /\ serialStartGeneration = serialNoBatch
    /\ serialRequests = <<>>
    /\ serialAlerts = <<>>
    /\ \E st \in [Slots -> UNION { SlotStates(s) : s \in Slots }],
          sst \in serialSlotStates :
          /\ \A s \in Slots : st[s] \in SlotStates(s)
          /\ uploadedFile = [s \in Slots |-> st[s].file]
          /\ uploadedFileParts = [s \in Slots |-> st[s].parts]
          /\ promptInput = [s \in Slots |-> st[s].prompt]
          /\ analyzeButtonDisabled = [s \in Slots |-> st[s].file = 0]
          /\ serialUploadedFile = sst.file
          /\ serialUploadedFileParts = sst.parts
          /\ serialPromptInput = sst.prompt
          /\ serialAnalyzeButtonDisabled = (sst.file = 0)
          /\ \/ /\ sst = [file |-> 0, parts |-> 0, prompt |-> <<>>]
                /\ customLines \in LinesUpTo(MaxLines)
             \/ /\ \A s \in Slots : st[s] = [file |-> 0, parts |-> 0, prompt |-> <<>>]
                /\ customLines \in LinesUpTo(MaxSerialLines)

NextClick ==
    \/ \E n \in 1..maxPoses : \E exprs \in [1..n -> 1..MaxExpr] :
          GenerateClick(customPosesInputValue(customLines), exprs)
    \/ GenerateClickRejected(customPosesInputValue(customLines))
    \/ \E e \in 1..MaxExpr :
          serialGenerateClick(customPosesInputValue(customLines), e)
    \/ serialGenerateClickRejected(customPosesInputValue(customLines))

SpecClick == InitClick /\ [][NextClick]_vars

\* ------------------------------------- sample/confirm variant (part_000)
\* Number of user events of a behaviour of the sample/confirm variant.
MaxSampleEvents == 4

\* Number of entries of the pose table the random pose of a sample is drawn
\* from.
MaxSamplePoses == 2

\* Number of outcomes of the shuffle the confirm handler draws from.
MaxShuffles == 2

\* selectedPoses = shuffledPoses.slice(0, 4).
confirmPoses == 4

\* Answers of the image service: an image part; parts without an image; no
\* candidates or parts at all; a raised error.
SampleResponses == {"image", "text", "empty", "error"}

\* fullPrompt of generateSample and of the confirm loop, with the two selects
\* left at 'none'.
sampleFullPrompt(basePrompt, pose, expression) ==
    <<"Using the character description \"">> \o basePrompt
    \o <<"\" and the provided image as the absolute ground truth for the character's appearance, redraw the character. The character must be in the following pose: '">>
    \o pose
    \o <<"', with ", expression,
         " on their face. It is absolutely crucial to maintain perfect consistency with the original character's facial features, hair, and overall identity. The art style MUST perfectly match the style of the reference image.">>

\* The request generateAndDisplayImage sends.
sampleRequest(parts, basePrompt, pose, expression) ==
    [prompt |-> sampleFullPrompt(basePrompt, pose, expression),
     image  |-> parts]

NoRequest == [prompt |-> <<>>, image |-> 0]

\* The img element generateAndDisplayImage appends for an answered request:
\* alt is the prompt, src the image returned, named by the reference image
\* the request carried.
sampleImg(request) == [alt |-> request.prompt, src |-> request.image]

\* An invocation of generateSample suspended at fileToGenerativePart(file).
sampleReading(file) ==
    [kind |-> "sample", pc |-> "read", file |-> file, request |-> NoRequest,
     poses |-> <<>>, issued |-> <<>>]

\* An invocation of generateSample (kind "sample") or of the confirm handler
\* (kind "confirm") suspended at generateAndDisplayImage; poses are the
\* selected poses still to come, issued the poses it has requested so far.
sampleGenerating(kind, request, rest, issued) ==
    [kind |-> kind, pc |-> "generate", file |-> 0, request |-> request,
     poses |-> rest, issued |-> issued]

\* The selected poses the confirm handler may draw: four pairwise distinct
\* entries of the pose table.
SelectedPoses ==
    { [i \in 1..confirmPoses |-> poses[((i + k - 1) % Len(poses)) + 1]] :
         k \in 0..(MaxShuffles - 1) }

\* imageUpload 'change' handler.  f = 0: the selection became empty.
sampleUploadChange(f) ==
    /\ sampleUserEvents < MaxSampleEvents
    /\ sampleUserEvents' = sampleUserEvents + 1
    /\ f # sampleUploadedFile
    /\ sampleUploadedFile' = f
    /\ sampleGenerateButtonDisabled' = (f = 0)
    /\ IF f # 0
       THEN /\ sampleImageGallery' = <<>>
            /\ sampleConfirmationHidden' = TRUE
            /\ sampleControlsHidden' = FALSE
            /\ sampleBasePrompt' = <<>>
            /\ sampleUploadedFileParts' = 0
            /\ sampleExtractions' = 0
       ELSE UNCHANGED <<sampleImageGallery, sampleConfirmationHidden,
                        sampleControlsHidden, sampleBasePrompt,
                        sampleUploadedFileParts, sampleExtractions>>
    /\ UNCHANGED <<sampleConfirmButtonsDisabled, sampleImageContainer, sampleRuns>>
    /\ UNCHANGED <<storeVars, batchVars, customLines, serialVars>>

\* generateSample up to its first await: nothing without a file; otherwise
\* the regenerate and confirm buttons are disabled and the function waits
\* for the file to be read, or, with a descriptor and image data in store,
\* for the sample image of pose p and expression e.
generateSample(p, e) ==
    IF sampleUploadedFile = 0
    THEN UNCHANGED <<sampleConfirmButtonsDisabled, sampleRuns>>
    ELSE /\ sampleConfirmButtonsDisabled' = TRUE
         /\ sampleRuns' =
               sampleRuns (+) SetToBag({
                  IF sampleBasePrompt = <<>> \/ sampleUploadedFileParts = 0
                  THEN sampleReading(sampleUploadedFile)
                  ELSE sampleGenerating("sample",
                          sampleRequest(sampleUploadedFileParts,
                                        sampleBasePrompt, poses[p],
                                        expressions[e]),
                          <<>>, <<poses[p]>>) })

\* generateButton 'click' handler up to the first await of generateSample.
\* The button dispatches a click when it is enabled and controls is shown.
sampleGenerateClick(p, e) ==
    /\ sampleUserEvents < MaxSampleEvents
    /\ sampleUserEvents' = sampleUserEvents + 1
    /\ ~sampleGenerateButtonDisabled
    /\ ~sampleControlsHidden
    /\ sampleImageGallery' = IF sampleUploadedFile = 0 THEN sampleImageGallery
                             ELSE <<>>
    /\ generateSample(p, e)
    /\ UNCHANGED <<sampleUploadedFile, sampleUploadedFileParts, sampleBasePrompt,
                   sampleGenerateButtonDisabled, sampleControlsHidden,
                   sampleConfirmationHidden, sampleImageContainer>>
    /\ UNCHANGED sampleExtractions
    /\ UNCHANGED <<storeVars, batchVars, customLines, serialVars>>

\* regenerateButton 'click' handler: generateSample up to its first await.
\* The button dispatches a click when it is enabled and the confirmation
\* step is shown.
sampleRegenerateClick(p, e) ==
    /\ sampleUserEvents < MaxSampleEvents
    /\ sampleUserEvents' = sampleUserEvents + 1
    /\ ~sampleConfirmButtonsDisabled
    /\ ~sampleConfirmationHidden
    /\ generateSample(p, e)
    /\ UNCHANGED <<sampleUploadedFile, sampleUploadedFileParts, sampleBasePrompt,
                   sampleGenerateButtonDisabled, sampleControlsHidden,
                   sampleConfirmationHidden, sampleImageContainer,
                   sampleImageGallery>>
    /\ UNCHANGED sampleExtractions
    /\ UNCHANGED <<storeVars, batchVars, customLines, serialVars>>

\* generateSample resumes with the file read: uploadedFileParts is assigned
\* and the description call is made.
sampleFileRead(r) ==
    /\ r \in BagToSet(sampleRuns)
    /\ r.pc = "read"
    /\ sampleUploadedFileParts' = r.file
    /\ sampleExtractions' = sampleExtractions + 1
    /\ sampleRuns' = (sampleRuns (-) SetToBag({r}))
                     (+) SetToBag({[r EXCEPT !.pc = "describe"]})
    /\ UNCHANGED <<sampleUploadedFile, sampleBasePrompt,
                   sampleGenerateButtonDisabled, sampleConfirmButtonsDisabled,
                   sampleControlsHidden, sampleConfirmationHidden,
                   sampleImageContainer, sampleImageGallery, sampleUserEvents>>
    /\ UNCHANGED <<storeVars, batchVars, customLines, serialVars>>

\* generateSample resumes after the description call: a raised error goes to
\* catch and finally; otherwise basePrompt is assigned and the sample call is
\* made with uploadedFileParts as it stands, which raises when it is null.
sampleDescriptionReturn(r, response, p, e) ==
    /\ r \in BagToSet(sampleRuns)
    /\ r.pc = "describe"
    /\ sampleBasePrompt' =
          IF response = "error" THEN sampleBasePrompt
          ELSE generateDescriptionFromImage(r.file, response)
    /\ IF response = "error" \/ sampleUploadedFileParts = 0
       THEN /\ sampleRuns' = sampleRuns (-) SetToBag({r})
            /\ sampleConfirmButtonsDisabled' = FALSE
       ELSE /\ sampleRuns' =
                  (sampleRuns (-) SetToBag({r}))
                  (+) SetToBag({ sampleGenerating("sample",
                                    sampleRequest(sampleUploadedFileParts,
                                                  sampleBasePrompt', poses[p],
                                                  expressions[e]),
                                    <<>>, <<poses[p]>>) })
            /\ UNCHANGED sampleConfirmButtonsDisabled
    /\ UNCHANGED <<sampleUploadedFile, sampleUploadedFileParts,
                   sampleGenerateButtonDisabled, sampleControlsHidden,
                   sampleConfirmationHidden, sampleImageContainer,
                   sampleImageGallery, sampleUserEvents>>
    /\ UNCHANGED sampleExtractions
    /\ UNCHANGED <<storeVars, batchVars, customLines, serialVars>>

\* generateAndDisplayImage(…, sampleImageContainer, true) answers and
\* generateSample runs to its end: the container is cleared when the answer
\* has parts and gets the image if there is one, controls is hidden and the
\* confirmation step shown; finally re-enables regenerate and confirm.
sampleGenerationReturn(r, response) ==
    /\ r \in BagToSet(sampleRuns)
    /\ r.kind = "sample"
    /\ r.pc = "generate"
    /\ sampleRuns' = sampleRuns (-) SetToBag({r})
    /\ sampleConfirmButtonsDisabled' = FALSE
    /\ IF response = "error"
       THEN UNCHANGED <<sampleImageContainer, sampleControlsHidden,
                        sampleConfirmationHidden>>
       ELSE /\ sampleImageContainer' =
                  IF response = "image" THEN <<sampleImg(r.request)>>
                  ELSE IF response = "text" THEN <<>>
                  ELSE sampleImageContainer
            /\ sampleControlsHidden' = TRUE
            /\ sampleConfirmationHidden' = FALSE
    /\ UNCHANGED <<sampleUploadedFile, sampleUploadedFileParts, sampleBasePrompt,
                   sampleGenerateButtonDisabled, sampleImageGallery,
                   sampleUserEvents>>
    /\ UNCHANGED sampleExtractions
    /\ UNCHANGED <<storeVars, batchVars, customLines, serialVars>>

\* confirmButton 'click' handler up to its first await: an alert without
\* descriptor or image data; otherwise the sample image moves to the gallery
\* and the call for the first selected pose is made.
sampleConfirmClick(selected, e) ==
    /\ sampleUserEvents < MaxSampleEvents
    /\ sampleUserEvents' = sampleUserEvents + 1
    /\ ~sampleConfirmButtonsDisabled
    /\ ~sampleConfirmationHidden
    /\ IF sampleBasePrompt = <<>> \/ sampleUploadedFileParts = 0
       THEN UNCHANGED <<sampleConfirmButtonsDisabled, sampleConfirmationHidden,
                        sampleImageContainer, sampleImageGallery, sampleRuns>>
       ELSE /\ sampleConfirmButtonsDisabled' = TRUE
            /\ sampleConfirmationHidden' = TRUE
            /\ sampleImageGallery' =
                  IF sampleImageContainer = <<>> THEN sampleImageGallery
                  ELSE Append(sampleImageGallery, Head(sampleImageContainer))
            /\ sampleImageContainer' =
                  IF sampleImageContainer = <<>> THEN <<>>
                  ELSE Tail(sampleImageContainer)
            /\ sampleRuns' =
                  sampleRuns
                  (+) SetToBag({ sampleGenerating("confirm",
                                    sampleRequest(sampleUploadedFileParts,
                                                  sampleBasePrompt, selected[1],
                                                  expressions[e]),
                                    Tail(selected), <<selected[1]>>) })
    /\ UNCHANGED <<sampleUploadedFile, sampleUploadedFileParts, sampleBasePrompt,
                   sampleGenerateButtonDisabled, sampleControlsHidden>>
    /\ UNCHANGED sampleExtractions
    /\ UNCHANGED <<storeVars, batchVars, customLines, serialVars>>

\* The confirm loop resumes after the call of a pose: a raised error ends the
\* loop through catch; otherwise the image, if any, is appended and the next
\* pose is requested with basePrompt and uploadedFileParts as they stand
\* (reading the parts raises when they are null); after the last pose
\* controls is shown.  finally re-enables regenerate, confirm and generate.
sampleConfirmReturn(r, response, e) ==
    /\ r \in BagToSet(sampleRuns)
    /\ r.kind = "confirm"
    /\ r.pc = "generate"
    /\ sampleImageGallery' =
          IF response = "image"
          THEN Append(sampleImageGallery, sampleImg(r.request))
          ELSE sampleImageGallery
    /\ IF response # "error" /\ r.poses # <<>> /\ sampleUploadedFileParts # 0
       THEN /\ sampleRuns' =
                  (sampleRuns (-) SetToBag({r}))
                  (+) SetToBag({ sampleGenerating("confirm",
                                    sampleRequest(sampleUploadedFileParts,
                                                  sampleBasePrompt,
                                                  Head(r.poses), expressions[e]),
                                    Tail(r.poses),
                                    Append(r.issued, Head(r.poses))) })
            /\ UNCHANGED <<sampleConfirmButtonsDisabled,
                           sampleGenerateButtonDisabled, sampleControlsHidden>>
       ELSE /\ sampleRuns' = sampleRuns (-) SetToBag({r})
            /\ sampleConfirmButtonsDisabled' = FALSE
            /\ sampleGenerateButtonDisabled' = FALSE
            /\ sampleControlsHidden' =
                  IF response # "error" /\ r.poses = <<>> THEN FALSE
                  ELSE sampleControlsHidden
    /\ UNCHANGED <<sampleUploadedFile, sampleUploadedFileParts, sampleBasePrompt,
                   sampleConfirmationHidden, sampleImageContainer,
                   sampleUserEvents>>
    /\ UNCHANGED sampleExtractions
    /\ UNCHANGED <<storeVars, batchVars, customLines, serialVars>>

NextSample ==
    \/ \E f \in 0..MaxImg : sampleUploadChange(f)
    \/ \E p \in 1..MaxSamplePoses, e \in 1..MaxExpr : sampleGenerateClick(p, e)
    \/ \E p \in 1..MaxSamplePoses, e \in 1..MaxExpr : sampleRegenerateClick(p, e)
    \/ \E r \in BagToSet(sampleRuns) : sampleFileRead(r)
    \/ \E r \in BagToSet(sampleRuns), response \in AnalysisResponses,
          p \in 1..MaxSamplePoses, e \in 1..MaxExpr :
          sampleDescriptionReturn(r, response, p, e)
    \/ \E r \in BagToSet(sampleRuns), response \in SampleResponses :
          sampleGenerationReturn(r, response)
    \/ \E selected \in SelectedPoses, e \in 1..MaxExpr :
          sampleConfirmClick(selected, e)
    \/ \E r \in BagToSet(sampleRuns), response \in SampleResponses,
          e \in 1..MaxExpr : sampleConfirmReturn(r, response, e)

SpecSample == Init /\ [][NextSample]_vars

\* ------------------------------------------------------------------ claims
BatchRunning == startGeneration # NoBatch

Pending(i) == imageGallery[i].kind = "placeholder"

Terminal(i) == imageGallery[i].kind \in {"card", "error"}

\* C1: a batch of N scenes has exactly N slots, slot i belongs to scene i
\* (its call carries scene i, and a card at position i shows the answer to
\* request i) whatever the order the calls finish in, and once the batch is
\* complete every slot is terminal.
C1_SlotPerSceneInOrder ==
    /\ BatchRunning =>
          /\ Len(imageGallery) = Len(startGeneration.posesToGenerate)
          /\ \A c \in generationCalls :
                /\ c.placeholder \in DOMAIN imageGallery
                /\ c.pose = startGeneration.posesToGenerate[c.placeholder]
                /\ Pending(c.placeholder)
          /\ \A i \in DOMAIN imageGallery :
                Pending(i) => \E c \in generationCalls : c.placeholder = i
    /\ \A i \in DOMAIN imageGallery :
          imageGallery[i].kind = "card" => imageGallery[i].src = i
    /\ ~BatchRunning => \A i \in DOMAIN imageGallery : Terminal(i)

\* A batch of two has completed: scene 1 failed, scene 2 has its image.
C1_Witness ==
    /\ ~BatchRunning
    /\ Len(imageGallery) = 2
    /\ imageGallery[1].kind = "error"
    /\ imageGallery[2] = [kind |-> "card", src |-> 2, error |-> "none"]

\* C2: when a call returns (with an image, without one, or by raising), its
\* own slot becomes terminal, every sibling call stays in flight with its slot
\* untouched, and the busy flag is released only by the last call to return:
\* no item error ends the batch early.
C2_ItemErrorIsolated ==
    [][\A c \in generationCalls :
          c \notin generationCalls' =>
             /\ imageGallery'[c.placeholder].kind \in {"card", "error"}
             /\ \A d \in generationCalls \ {c} :
                   /\ d \in generationCalls'
                   /\ imageGallery'[d.placeholder] = imageGallery[d.placeholder]
             /\ (~generateButtonDisabled') <=> (generationCalls' = {})]_vars

\* Scene 1 raised and scene 2, which answered afterwards or before, still
\* has its image; the batch is reported complete.
C2_Witness ==
    /\ ~generateButtonDisabled
    /\ generationCalls = {}
    /\ Len(imageGallery) = 2
    /\ imageGallery[1].error = "generateContent raised"
    /\ imageGallery[2].kind = "card"

\* C3: while any slot is pending or any call is in flight the busy flag is
\* set, and every call in flight belongs to the one batch that is running (it
\* is awaited and its placeholder is in the gallery).
C3_SingleBatchInFlight ==
    /\ (generationCalls # {} \/ \E i \in DOMAIN imageGallery : Pending(i))
          => (generateButtonDisabled /\ BatchRunning)
    /\ \A c \in generationCalls : c.attached /\ c.awaited

\* A batch is half done and the user has replaced the Primary image
\* meanwhile.
C3_Witness ==
    /\ generateButtonDisabled
    /\ Len(imageGallery) = 2
    /\ Terminal(1) /\ Pending(2)
    /\ uploadedFile["1"] # 0 /\ uploadedFileParts["1"] = 0
    /\ uploadedFile["1"] # startGeneration.parts["1"]

\* C4: under FairSpec, a started batch leads to a state where the busy flag
\* is released and every slot is terminal.
C4_BatchTerminates ==
    generateButtonDisabled ~>
        (~generateButtonDisabled /\ \A i \in DOMAIN imageGallery : Terminal(i))

\* A batch whose two items both failed, one by raising and one without an
\* image, has been released.
C4_Witness ==
    /\ ~generateButtonDisabled
    /\ Len(imageGallery) = 2
    /\ imageGallery[1].error = "No image data found in response."
    /\ imageGallery[2].error = "generateContent raised"

\* C5: a call in flight after a step either was in flight before it,
\* unchanged, or was issued by the step, and then it carries the instruction
\* composed from the descriptors, and the reference images, of the store as it
\* was when the step began: no later store event alters a request.
C5_RequestsUseStartSnapshot ==
    [][\A c \in generationCalls' :
          \/ c \in generationCalls
          \/ /\ c.prompt = fullPrompt([s \in Slots |-> Trim(promptInput[s])],
                                      uploadedFileParts, c.pose, c.expression)
             /\ c.images = requestImages(uploadedFileParts)
             /\ c.images[1].data # 0]_vars

\* A call is in flight whose Primary image has been removed from the store
\* and whose descriptor has been cleared since the batch started.
C5_Witness ==
    /\ generationCalls # {}
    /\ uploadedFileParts["1"] = 0
    /\ Trim(promptInput["1"]) # startGeneration.basePrompt["1"]

PrimaryMissing == Trim(promptInput["1"]) = <<>> \/ uploadedFileParts["1"] = 0

\* No step sets the busy flag, issues a call, creates a slot or clears the
\* gallery: at most, pending slots become terminal.
NoBatchStarted ==
    /\ generationCalls' \subseteq generationCalls
    /\ generateButtonDisabled' => generateButtonDisabled
    /\ Len(imageGallery') = Len(imageGallery)
    /\ \A i \in DOMAIN imageGallery :
          imageGallery'[i] = imageGallery[i] \/ Pending(i)

\* C7: from a state where the Primary slot lacks its analyzed image or its
\* descriptor, no step (so no generate request) starts a batch.
C7_MissingPrimaryRejected == [][PrimaryMissing => NoBatchStarted]_vars

\* The generate control is enabled, the gallery holds the results of an
\* earlier batch, and the Primary image has been removed.
C7_Witness ==
    /\ ~generateButtonDisabled
    /\ PrimaryMissing
    /\ imageGallery # <<>>
    /\ uploadedFile["1"] = 0

\* C8 (as claimed): from a state where the Secondary or the Prop slot has an
\* image selected and no descriptor, no step issues a generation call.
C8_SelectedWithoutDescriptorRejected ==
    [][(\E s \in {"2", "Prop"} :
           uploadedFile[s] # 0 /\ Trim(promptInput[s]) = <<>>)
       => generationCalls' \subseteq generationCalls]_vars

\* The descriptor texts extraction can produce.
ExtractedDescriptors == { <<DescriptionWord(s, f)>> : s \in Slots, f \in Images }

\* C9 (as claimed): a slot holding an extracted descriptor has its image (a
\* file selected or analyzed image data).
C9_DescriptorImpliesImage ==
    \A s \in Slots :
        promptInput[s] \in ExtractedDescriptors
            => (uploadedFile[s] # 0 \/ uploadedFileParts[s] # 0)

\* C10 (as claimed): whenever a generation call is issued, the image data it
\* carries for a slot with an image selected is that of the selected image,
\* and an extracted descriptor it uses is that of the selected image.
C10_RequestsUseSelectedImage ==
    [][(\E c \in generationCalls' : c \notin generationCalls) =>
          \A s \in Slots :
              uploadedFile[s] # 0 =>
                 /\ uploadedFileParts[s] # 0 => uploadedFileParts[s] = uploadedFile[s]
                 /\ promptInput[s] \in ExtractedDescriptors
                       => promptInput[s] = <<DescriptionWord(s, uploadedFile[s])>>]_vars

\* What the descriptor textarea can hold, trimmed.
SerialDescriptors ==
    { generateDescriptionFromImage(f, "text") : f \in Images }
        \cup { Trim(t) : t \in EditTexts }

\* C6: in the serial variant, replacing the reference image while a batch is
\* running alters none of the remaining items: every request of the batch
\* carries the image and the descriptor of its first request, and a batch that
\* ends without the service raising an error has issued all its N items.
C6_SerialBatchKeepsStartSnapshot ==
    [][ /\ \A k \in DOMAIN serialRequests' :
              serialRequests'[k].image = serialRequests'[1].image
        /\ \E d \in SerialDescriptors : \A k \in DOMAIN serialRequests' :
              serialRequests'[k].prompt =
                  serialFullPrompt(d, serialRequests'[k].pose,
                                   serialRequests'[k].expression)
        /\ ( /\ serialGenerateButtonDisabled
             /\ ~serialGenerateButtonDisabled'
             /\ \A k \in DOMAIN serialRequests' :
                    serialRequests'[k].response # "error" )
           => Len(serialRequests') = Len(serialStartGeneration.posesToGenerate)
      ]_vars

\* An extraction call of slot s answers in this step.
ExtractionReturns(s) ==
    \E f \in Images : analysisCalls'[<<s, f>>] < analysisCalls[<<s, f>>]

\* C11: when the image of a slot is replaced or removed, the slot's descriptor
\* and its analyzed image data are both empty right after the change event.
C11_ReplaceOrRemoveClearsBoth ==
    [][ \A s \in Slots :
            uploadedFile'[s] # uploadedFile[s]
            => (Trim(promptInput'[s]) = <<>> /\ uploadedFileParts'[s] = 0) ]_vars

\* C12: for any one slot at most one extraction call is in flight, and while
\* one is running the slot's analyze button stays disabled.
C12_OneExtractionPerSlot ==
    \A s \in Slots :
        /\ AnalysesInFlight(analysisCalls, s) <= 1
        /\ AnalysesInFlight(analysisCalls, s) > 0 => analyzeButtonDisabled[s]

\* C13: an extraction whose description call raises or returns text that is
\* empty after trimming fails: whenever an extraction leaves the slot marked
\* as analyzed, the descriptor it stored is not empty.
C13_EmptyTextIsExtractionError ==
    [][ \A s \in Slots :
            (ExtractionReturns(s) /\ uploadedFileParts'[s] # 0)
            => Trim(promptInput'[s]) # <<>> ]_vars

RECURSIVE SceneWords(_)
SceneWords(lines) ==
    IF lines = <<>> THEN <<>>
    ELSE SceneWords(SubSeq(lines, 1, Len(lines) - 1))
         \o (IF lines[Len(lines)] THEN << <<LineWord(Len(lines))>> >> ELSE <<>>)

FirstLines(ws, cap) == [i \in 1..(IF Len(ws) < cap THEN Len(ws) ELSE cap) |-> ws[i]]

InSeq(x, sq) == \E i \in DOMAIN sq : sq[i] = x

\* C15: custom scene text with at least one non-empty line resolves to its
\* non-empty trimmed lines in the order typed, cut to the first cap of them
\* (cap 5 in the multi-reference variant, 10 in the single-subject variant).
C15_CustomListCapped ==
    LET ws == SceneWords(customLines)
    IN Len(ws) > 0 =>
         /\ generateButtonDisabled =>
              /\ startGeneration.posesToGenerate = FirstLines(ws, 5)
              /\ Len(imageGallery) = Len(FirstLines(ws, 5))
         /\ serialGenerateButtonDisabled =>
              serialStartGeneration.posesToGenerate = FirstLines(ws, 10)

\* A batch started from more than five typed scenes with a blank line among
\* them.
C15_Witness ==
    /\ generateButtonDisabled
    /\ Len(SceneWords(customLines)) > 5
    /\ \E k \in DOMAIN customLines : k < 5 /\ ~customLines[k]
    /\ Len(startGeneration.posesToGenerate) = 5

C17_BlankLinesRejected ==
    (customLines # <<>> /\ SceneWords(customLines) = <<>>) =>
        /\ ~generateButtonDisabled /\ generationCalls = {}
        /\ ~serialGenerateButtonDisabled /\ serialRequests = <<>>

\* C18: the default table never exceeds the maximum batch size: with empty
\* custom text a batch runs over the complete default table.
C18_DefaultsNeverTruncated ==
    customLines = <<>> =>
        /\ generateButtonDisabled =>
               startGeneration.posesToGenerate
                   \in {twoCharacterPoses, singleCharacterPoses}
        /\ serialGenerateButtonDisabled =>
               serialStartGeneration.posesToGenerate = poses

\* C19: a generate click shows the truncation notice if and only if the user
\* typed more scenes than the cap.
C19_TruncationNoticeIffCustomOversized ==
    LET ws == SceneWords(customLines)
    IN /\ (generateButtonDisabled \/ alerts # <<>>) =>
              (InSeq(alertMaximum, alerts) <=> Len(ws) > 5)
       /\ (serialGenerateButtonDisabled \/ serialAlerts # <<>>) =>
              (InSeq(alertMaximum, serialAlerts) <=> Len(ws) > 10)

\* A batch started with the truncation notice shown.
C19_Witness ==
    /\ generateButtonDisabled
    /\ alerts = <<alertMaximum>>
    /\ Len(SceneWords(customLines)) > 5

\* Phrases by which the two templates are told apart.
dualOpening ==
    "You are a master character artist. Your task is to generate a scene with two characters. Character 1 is described as: \""
secondSubjectClause == "\". Character 2 is described as: \""
bothCharacters == " Both characters should have "
singleOpening ==
    "You are a master character artist. Your task is to generate a scene with one character. The character is described as: \""

\* sub occurs in sq as a run of consecutive tokens.
Contains(sq, sub) ==
    \E i \in 0..(Len(sq) - Len(sub)) : SubSeq(sq, i + 1, i + Len(sub)) = sub

SecondaryUsable ==
    uploadedFileParts["2"] # 0 /\ Trim(promptInput["2"]) # <<>>

\* C20: every instruction of a batch uses the dual-subject template, with
\* both subjects' descriptors, if and only if the Secondary slot has analyzed
\* image data and a non-empty descriptor; otherwise it uses the
\* single-subject template, with no second-subject clause and without the
\* Secondary descriptor.
C20_DualTemplateIffSecondaryUsable ==
    \A c \in generationCalls :
        LET d1 == Trim(promptInput["1"])
            d2 == Trim(promptInput["2"])
        IN IF SecondaryUsable
           THEN /\ c.prompt[1] = dualOpening
                /\ Contains(c.prompt, <<dualOpening>> \o d1
                                      \o <<secondSubjectClause>> \o d2)
                /\ InSeq(bothCharacters, c.prompt)
                /\ ~InSeq(singleOpening, c.prompt)
           ELSE /\ c.prompt[1] = singleOpening
                /\ Contains(c.prompt, <<singleOpening>> \o d1)
                /\ ~InSeq(dualOpening, c.prompt)
                /\ ~InSeq(secondSubjectClause, c.prompt)
                /\ ~InSeq(bothCharacters, c.prompt)
                /\ (d2 # <<>> /\ d2 # d1) => ~Contains(c.prompt, d2)

\* A dual-subject batch has been issued, and the store also holds a prop.
C20_Witness ==
    /\ generateButtonDisabled
    /\ SecondaryUsable
    /\ uploadedFileParts["Prop"] # 0
    /\ \E c \in generationCalls :
          c.prompt[1] = dualOpening /\ Len(c.images) = 3

propClauseOpening == " The scene must also include a prop described as \""
propClauseClosing ==
    "\", using the provided prop image as a strict reference for its appearance."

PropUsable ==
    uploadedFileParts["Prop"] # 0 /\ Trim(promptInput["Prop"]) # <<>>

\* C21: every instruction of a batch contains the prop clause, with the Prop
\* descriptor, if and only if the Prop slot has a non-empty descriptor and
\* analyzed image data.
C21_PropClauseIffPropUsable ==
    \A c \in generationCalls :
        IF PropUsable
        THEN Contains(c.prompt, <<propClauseOpening>> \o Trim(promptInput["Prop"])
                                \o <<propClauseClosing>>)
        ELSE /\ ~InSeq(propClauseOpening, c.prompt)
             /\ ~InSeq(propClauseClosing, c.prompt)
             /\ Trim(promptInput["Prop"]) # <<>>
                => ~Contains(c.prompt, Trim(promptInput["Prop"]))

\* A batch with the prop clause has been issued.
C21_Witness ==
    /\ generateButtonDisabled
    /\ PropUsable
    /\ \E c \in generationCalls : InSeq(propClauseOpening, c.prompt)

\* C22: the asset store has a Background slot; a batch issued with a
\* Background descriptor and image passes that image last and leaves out the
\* neutral-studio clause.
C22_BackgroundSlotSupported ==
    /\ "Background" \in DOMAIN uploadedFileParts
    /\ \A c \in generationCalls :
           (uploadedFileParts["Background"] # 0 /\ promptInput["Background"] # <<>>)
           => /\ c.images[Len(c.images)].slot = "Background"
              /\ ~Contains(c.prompt, consistentBackground)

\* The call of the current batch for slot i is in flight.
CallInFlight(calls, i) == \E c \in calls : c.placeholder = i /\ c.attached

\* C23: a call that returns leaves its slot terminal; when it returned
\* without image data the slot is Failed with that reason, every other slot
\* is as it was, and the busy flag is released exactly when no slot is left
\* pending, as for any other per-item error.
C23_NoImageIsItemFailure ==
    [][ \A i \in DOMAIN imageGallery :
            (CallInFlight(generationCalls, i) /\ ~CallInFlight(generationCalls', i))
            => /\ DOMAIN imageGallery' = DOMAIN imageGallery
               /\ imageGallery'[i].kind \in {"card", "error"}
               /\ imageGallery'[i].error = "No image data found in response."
                  => /\ imageGallery'[i].kind = "error"
                     /\ \A j \in DOMAIN imageGallery \ {i} :
                            imageGallery'[j] = imageGallery[j]
                     /\ generateButtonDisabled'
                        <=> \E j \in DOMAIN imageGallery' :
                               imageGallery'[j].kind = "placeholder" ]_vars

\* A batch has completed with a slot failed for lack of image data beside a
\* slot that succeeded.
C23_Witness ==
    /\ ~generateButtonDisabled
    /\ \E i, j \in DOMAIN imageGallery :
          /\ imageGallery[i].error = "No image data found in response."
          /\ imageGallery[j].kind = "card"

\* C24: in the serial variant a call that returns without image data adds a
\* result entry for its scene to the gallery, as a call that returns an
\* image does.
C24_SerialNoImageAddsEntry ==
    [][ \A i \in DOMAIN serialRequests :
            ( /\ serialStartGeneration.i = i
              /\ serialRequests[i].response = "pending"
              /\ i \in DOMAIN serialRequests'
              /\ serialRequests'[i].response = "noimage" )
            => Len(serialImageGallery') = Len(serialImageGallery) + 1 ]_vars

\* The calls in flight for slot i of the gallery.
CallsFor(calls, i) == { c \in calls : c.placeholder = i /\ c.attached }

\* The step is the start of a batch.
BatchStarts == ~generateButtonDisabled /\ generateButtonDisabled'

\* C26: a pending slot has exactly one call in flight and a terminal slot has
\* none; calls are issued only when a batch starts, one per scene; a slot
\* changes only from Pending to Succeeded or Failed, with its call answered,
\* and a terminal slot stays as it is until the next batch replaces the
\* gallery.
C26_OneCallOneTransition ==
    /\ [](\A i \in DOMAIN imageGallery :
             /\ Pending(i) => Cardinality(CallsFor(generationCalls, i)) = 1
             /\ Terminal(i) => CallsFor(generationCalls, i) = {})
    /\ [][ IF BatchStarts
           THEN /\ Cardinality(generationCalls') = Len(imageGallery')
                /\ \A i \in DOMAIN imageGallery' :
                      /\ imageGallery'[i] = placeholder
                      /\ Cardinality(CallsFor(generationCalls', i)) = 1
           ELSE /\ DOMAIN imageGallery' = DOMAIN imageGallery
                /\ \A i \in DOMAIN imageGallery :
                      /\ CallsFor(generationCalls', i) \subseteq
                            { [c EXCEPT !.awaited = a] :
                                 c \in CallsFor(generationCalls, i),
                                 a \in BOOLEAN }
                      /\ Terminal(i) => imageGallery'[i] = imageGallery[i]
                      /\ imageGallery'[i] # imageGallery[i]
                         => /\ Pending(i)
                            /\ Terminal(i)'
                            /\ CallsFor(generationCalls', i) = {} ]_vars

\* A batch has one slot terminal while another slot is still pending with its
\* one call in flight.
C26_Witness ==
    /\ generateButtonDisabled
    /\ \E i, j \in DOMAIN imageGallery :
          /\ Terminal(i)
          /\ Pending(j)
          /\ Cardinality(CallsFor(generationCalls, j)) = 1

\* The slots holding analyzed image data, in the order Primary, Secondary,
\* Prop.
PopulatedSlots == SelectSeq(<<"1", "2", "Prop">>,
                            LAMBDA s : uploadedFileParts[s] # 0)

\* C27: the parts of every generation request are the image of Primary, the
\* image of Secondary if it holds image data, the image of Prop if it holds
\* image data, in that order, and the instruction text last; the Primary
\* image is always the first part and is real image data.
C27_ReferenceOrder ==
    \A c \in generationCalls :
        LET ps == requestParts(c)
        IN /\ Len(ps) = Len(PopulatedSlots) + 1
           /\ \A k \in 1..Len(PopulatedSlots) :
                 /\ ps[k].slot = PopulatedSlots[k]
                 /\ ps[k].data = uploadedFileParts[PopulatedSlots[k]]
           /\ ps[Len(ps)] = [slot |-> "text", data |-> c.prompt]
           /\ ps[1].slot = "1"
           /\ ps[1].data \in Images

\* A request carries the three images and the text.
C27_Witness ==
    \E c \in generationCalls :
        /\ Len(requestParts(c)) = 4
        /\ requestParts(c)[2].slot = "2"
        /\ requestParts(c)[3].slot = "Prop"

\* What the service answers to the character template and to the prop
\* template.
CharacterSheets == { <<DescriptionWord("1", f)>> : f \in Images }

PropSheets == { <<DescriptionWord("Prop", f)>> : f \in Images }

\* C29: an extraction that succeeds with text leaves in the textarea of
\* Character 1 or Character 2 an answer to the character template and in the
\* textarea of Prop an answer to the prop template, never the other one.
C29_TemplateByRole ==
    [][ \A s \in Slots :
            ( /\ ExtractionReturns(s)
              /\ uploadedFileParts'[s] # 0
              /\ promptInput'[s] # <<>> )
            => IF s = "Prop"
               THEN promptInput'[s] \in PropSheets \ CharacterSheets
               ELSE promptInput'[s] \in CharacterSheets \ PropSheets ]_vars

\* The Prop slot has been analyzed and holds the answer to the prop template
\* for its image.
C29_Witness ==
    /\ uploadedFileParts["Prop"] # 0
    /\ promptInput["Prop"] = <<DescriptionWord("Prop", uploadedFileParts["Prop"])>>
    /\ TotalAnalyses(analysisCalls) = 0

\* C30: when the call of item k raises, the batch ends in that step: no
\* further call is issued, the gallery keeps the results of the items before
\* k, and the busy flag is released; as long as the failed request is on
\* record it is the last one issued and the gallery holds exactly the images
\* returned for earlier items.
C30_SerialErrorAbortsBatch ==
    /\ [](\A k \in DOMAIN serialRequests :
             serialRequests[k].response = "error"
             => /\ k = Len(serialRequests)
                /\ ~serialGenerateButtonDisabled
                /\ serialStartGeneration = serialNoBatch
                /\ Len(serialImageGallery) =
                      Cardinality({ j \in 1..(k - 1) :
                                       serialRequests[j].response = "image" })
                /\ \A m \in DOMAIN serialImageGallery :
                      /\ serialImageGallery[m].src < k
                      /\ serialRequests[serialImageGallery[m].src].response = "image")
    /\ [][ \A k \in DOMAIN serialRequests :
              ( /\ serialStartGeneration.i = k
                /\ k \in DOMAIN serialRequests'
                /\ serialRequests'[k].response = "error" )
              => /\ Len(serialRequests') = k
                 /\ serialImageGallery' = serialImageGallery
                 /\ ~serialGenerateButtonDisabled' ]_vars

\* The second call of a batch raised after the first returned an image: one
\* image in the gallery, two requests issued, the busy flag released.
C30_Witness ==
    /\ ~serialGenerateButtonDisabled
    /\ Len(serialRequests) = 2
    /\ serialRequests[1].response = "image"
    /\ serialRequests[2].response = "error"
    /\ Len(serialImageGallery) = 1
    /\ serialUploadedFileParts # 0

\* C25: in the sample/confirm variant a generation sequence (a sample
\* generation or a confirm batch) starts only when no other one is in
\* flight.
C25_NoSequenceStartsWhileInFlight ==
    [][ BagCardinality(sampleRuns') > BagCardinality(sampleRuns)
        => sampleRuns = EmptyBag ]_vars

\* The outcome a gallery child shows: Succeeded with the image answering
\* request src, Failed, or Pending.
OutcomeOf(child) ==
    IF child.kind = "card" THEN <<"Succeeded", child.src>>
    ELSE IF child.kind = "error" THEN <<"Failed", 0>>
    ELSE <<"Pending", 0>>

\* The outcomes a dispatcher produces that takes the items one by one, in
\* scene order, each call inside its own try / catch: item k succeeds with
\* its own image when the service answered with one and fails otherwise.
RECURSIVE SerialDispatch(_)
SerialDispatch(responses) ==
    IF responses = <<>> THEN <<>>
    ELSE LET k == Len(responses)
         IN Append(SerialDispatch(SubSeq(responses, 1, k - 1)),
                   IF responses[k] = "image" THEN <<"Succeeded", k>>
                   ELSE IF responses[k] = "pending" THEN <<"Pending", 0>>
                   ELSE <<"Failed", 0>>)

\* C31: at every moment the outcomes the gallery shows are those the serial
\* per-item dispatcher produces for the answers given so far, whatever the
\* order the calls completed in; a completed batch has no pending slot.
C31_OutcomesAsSerialDispatch ==
    /\ Len(imageGallery) = Len(generationResponses)
    /\ [i \in DOMAIN imageGallery |-> OutcomeOf(imageGallery[i])]
          = SerialDispatch(generationResponses)
    /\ ~generateButtonDisabled
          => \A i \in DOMAIN generationResponses : generationResponses[i] # "pending"

\* A batch has completed in which the second item was answered with an image
\* and the first was not; its second slot shows the image of the second
\* request.
C31_Witness ==
    /\ ~generateButtonDisabled
    /\ Len(generationResponses) >= 2
    /\ generationResponses[1] \in {"noimage", "error"}
    /\ generationResponses[2] = "image"
    /\ imageGallery[2].src = 2

\* The image of slot s is among the reference images of call c.
ImageAttached(c, s) == \E k \in DOMAIN c.images : c.images[k].slot = s

\* C32: in every request of a batch the Secondary image is attached exactly
\* when the instruction uses the dual-subject template, the Prop image is
\* attached exactly when the instruction has the prop clause, and a batch
\* over the default scenes uses the two-subject table exactly when its
\* instructions use the dual-subject template.
C32_OptionalSlotUsesAgree ==
    \A c \in generationCalls :
        /\ ImageAttached(c, "2") <=> c.prompt[1] = dualOpening
        /\ ImageAttached(c, "Prop") <=> InSeq(propClauseOpening, c.prompt)
        /\ SceneWords(customLines) = <<>>
           => (startGeneration.posesToGenerate = twoCharacterPoses
                 <=> c.prompt[1] = dualOpening)

\* A batch over the default scenes has been issued with the Secondary and
\* the Prop image attached: two-subject table, dual-subject template, prop
\* clause.
C32_Witness ==
    /\ generateButtonDisabled
    /\ SceneWords(customLines) = <<>>
    /\ startGeneration.posesToGenerate = twoCharacterPoses
    /\ \E c \in generationCalls :
          /\ ImageAttached(c, "2")
          /\ ImageAttached(c, "Prop")
          /\ c.prompt[1] = dualOpening
          /\ InSeq(propClauseOpening, c.prompt)

\* C33: an extraction failing on a slot that held analyzed image data empties
\* that data and leaves every descriptor text as it was.  With the Primary
\* data empty no batch starts and the request is refused with the Character 1
\* alert; with the Secondary or Prop data empty a batch carries no image of
\* that slot, uses the single-subject template or no prop clause, and no
\* refusal names that slot.
C33_FailedReextraction ==
    [][ /\ \A s \in Slots :
              ( /\ ExtractionReturns(s)
                /\ uploadedFileParts[s] # 0
                /\ uploadedFileParts'[s] = 0 )
              => promptInput' = promptInput
        /\ BatchStarts
           => /\ uploadedFileParts["1"] # 0
              /\ \A c \in generationCalls' :
                    /\ uploadedFileParts["2"] = 0
                       => (~ImageAttached(c, "2") /\ c.prompt[1] = singleOpening)
                    /\ uploadedFileParts["Prop"] = 0
                       => ( /\ ~ImageAttached(c, "Prop")
                            /\ ~InSeq(propClauseOpening, c.prompt) )
        /\ (~BatchStarts /\ alerts' # alerts)
           => /\ uploadedFileParts["1"] = 0
                 => alerts'[Len(alerts')] = alertCharacter1
              /\ uploadedFileParts["2"] = 0 => ~InSeq(alertCharacter2, alerts')
              /\ uploadedFileParts["Prop"] = 0 => ~InSeq(alertProp, alerts')
      ]_vars

\* After a failed re-extraction on Secondary, which keeps its image and its
\* descriptor, a batch runs on the single-subject template without the
\* Secondary image.
C33_Witness ==
    /\ uploadedFile["2"] # 0
    /\ uploadedFileParts["2"] = 0
    /\ promptInput["2"] \in CharacterSheets
    /\ generateButtonDisabled
    /\ \E c \in generationCalls :
          /\ c.prompt[1] = singleOpening
          /\ ~ImageAttached(c, "2")
          /\ ImageAttached(c, "Prop")

\* C34: a batch starts with no earlier call in flight and with a gallery of
\* exactly its N placeholders; from then on, during and after the batch, the
\* gallery has one slot per scene of that batch, each pending until the
\* current batch's own call for it is answered and terminal afterwards, and
\* every call in flight belongs to a slot of the gallery.
C34_GalleryIsCurrentBatch ==
    /\ [](/\ Len(imageGallery) = Len(generationResponses)
          /\ BatchRunning
             => Len(imageGallery) = Len(startGeneration.posesToGenerate)
          /\ \A i \in DOMAIN imageGallery :
                /\ Pending(i) <=> generationResponses[i] = "pending"
                /\ imageGallery[i].kind = "card"
                   <=> generationResponses[i] = "image"
          /\ \A c \in generationCalls :
                c.attached /\ c.placeholder \in DOMAIN imageGallery)
    /\ [][ BatchStarts
           => /\ generationCalls = {}
              /\ Len(imageGallery') = Len(startGeneration'.posesToGenerate)
              /\ \A i \in DOMAIN imageGallery' : imageGallery'[i] = placeholder
         ]_vars

\* A batch of one scene is running: the gallery holds its one pending slot
\* and nothing else.
C34_Witness ==
    /\ generateButtonDisabled
    /\ Len(imageGallery) = 1
    /\ Pending(1)
    /\ Len(startGeneration.posesToGenerate) = 1

\* C35: in the serial variant only the latest request of a batch can be
\* unanswered, a further request is issued only in the step in which the
\* one before it is answered, and the gallery holds the images of answered
\* requests in the order of their scenes.
C35_SerialOneCallInFlight ==
    /\ [](/\ \A k \in DOMAIN serialRequests :
                serialRequests[k].response = "pending"
                => (k = Len(serialRequests) /\ serialGenerateButtonDisabled)
          /\ \A m \in DOMAIN serialImageGallery :
                /\ serialImageGallery[m].src \in DOMAIN serialRequests
                /\ serialRequests[serialImageGallery[m].src].response = "image"
                /\ serialImageGallery[m].alt
                      = serialRequests[serialImageGallery[m].src].prompt
                /\ \A n \in DOMAIN serialImageGallery :
                      m < n => serialImageGallery[m].src < serialImageGallery[n].src)
    /\ [][ Len(serialRequests') > Len(serialRequests) /\ serialRequests # <<>>
           => /\ Len(serialRequests') = Len(serialRequests) + 1
              /\ serialRequests[Len(serialRequests)].response = "pending"
              /\ serialRequests'[Len(serialRequests)].response # "pending"
         ]_vars

\* The third call of a batch is in flight after the first returned an image,
\* the second none: the gallery holds the image of scene 1.
C35_Witness ==
    /\ serialGenerateButtonDisabled
    /\ Len(serialRequests) = 3
    /\ serialRequests[1].response = "image"
    /\ serialRequests[2].response = "noimage"
    /\ serialRequests[3].response = "pending"
    /\ Len(serialImageGallery) = 1
    /\ serialImageGallery[1].src = 1

\* C36: in the sample/confirm variant at most one description call is made
\* for an uploaded image; a further one is made only after a new upload.
C36_ExtractionOncePerUpload == sampleExtractions <= 1

\* The poses of sq are pairwise distinct entries of the pose table.
DistinctTablePoses(sq) ==
    /\ \A i \in DOMAIN sq : InSeq(sq[i], poses)
    /\ \A i, j \in DOMAIN sq : i # j => sq[i] # sq[j]

\* A confirm batch is in flight.
ConfirmRuns(runs) == { r \in BagToSet(runs) : r.kind = "confirm" }

\* C37: a confirm batch works through 4 pairwise distinct entries of the
\* pose table, and when it ends with its call answered it has issued exactly
\* 4 requests; with no sequence in flight the gallery holds at most 5 images;
\* a confirm request made without a stored descriptor or without image data
\* starts no batch.
C37_ConfirmIssuesFour ==
    /\ [](/\ \A r \in ConfirmRuns(sampleRuns) :
                /\ Len(r.issued) + Len(r.poses) = confirmPoses
                /\ DistinctTablePoses(r.issued \o r.poses)
          /\ sampleRuns = EmptyBag
             => Len(sampleImageGallery) <= confirmPoses + 1)
    /\ [][ /\ \A r \in ConfirmRuns(sampleRuns) :
                 ( /\ BagCardinality(sampleRuns') < BagCardinality(sampleRuns)
                   /\ CopiesIn(r, sampleRuns') < CopiesIn(r, sampleRuns)
                   /\ sampleImageGallery'
                         = Append(sampleImageGallery, sampleImg(r.request)) )
                 => Len(r.issued) = confirmPoses
           /\ (sampleBasePrompt = <<>> \/ sampleUploadedFileParts = 0)
              => \A r \in ConfirmRuns(sampleRuns') :
                    CopiesIn(r, sampleRuns') > CopiesIn(r, sampleRuns)
                    => Len(r.issued) > 1
         ]_vars

=============================================================================
